---------------------------- MODULE Spec2Model ----------------------------
(***************************************************************************)
(* A model of the MONAI transform library:                                 *)
(*   monai/transforms/utils.py               pure array/geometry helpers   *)
(*   monai/transforms/transforms.py          array transforms              *)
(*   monai/transforms/utility/dictionary.py  dictionary adapters           *)
(*                                                                         *)
(* One behaviour exercises one callable.  Init constructs the object (or   *)
(* draws the arguments of a plain function); every action is one complete  *)
(* call of a handler.  `fn' names the callable, `self' holds the fields of *)
(* the instance, `arg' the argument of the last call (for the adapters:    *)
(* the caller's mapping object), `ret' what the call returned, `raised'    *)
(* the exception it raised ("" for none), `trace' the events of the last   *)
(* call in program order, `ncalls' the number of calls made so far and     *)
(* `ctor' the arguments the instance was constructed with.                 *)
(***************************************************************************)
EXTENDS Integers, Sequences, FiniteSets, TLC

VARIABLES fn, ctor, self, arg, ret, raised, trace, ncalls

vars == <<fn, ctor, self, arg, ret, raised, trace, ncalls>>

(***************************************************************************)
(* Bounds of the model.                                                    *)
(***************************************************************************)
\* longest key list handed to a dictionary adapter
MaxKeys == 2

\* most elements of an array handed to a function of utils.py
MaxElems == 4

\* largest num_classes handed to one_hot
MaxClasses == 3

\* the number of equal parts of [0, 1) a generator draw is resolved to: a
\* draw is u / DrawRes for u in 0..DrawRes-1, a probability is p / DrawRes
DrawRes == 2

\* largest max_k of a RandRotate90
MaxK == 3

\* most calls made on one randomized transform
MaxCalls == 2

\* longest spatial axis of an image handed to zero_margins, largest margin
\* and largest control point spacing; spatial sizes handed to
\* create_control_grid go up to twice this
MaxSide == 3

\* most elements of an image handed to zero_margins
MaxVoxels == 9

(***************************************************************************)
(* Small helpers.                                                          *)
(***************************************************************************)
Min(a, b) == IF a <= b THEN a ELSE b

Max(a, b) == IF a >= b THEN a ELSE b

Range(s) == {s[i] : i \in DOMAIN s}

\* all sequences over S of length lo..hi
SeqsOf(S, lo, hi) == UNION {[1..n -> S] : n \in lo..hi}

\* number of positions of sequence s holding x
RECURSIVE Count(_, _)
Count(s, x) ==
    IF s = <<>> THEN 0
    ELSE (IF Head(s) = x THEN 1 ELSE 0) + Count(Tail(s), x)

\* sequence s without its position i
RemoveAt(s, i) == SubSeq(s, 1, i - 1) \o SubSeq(s, i + 1, Len(s))

(***************************************************************************)
(* Dictionary adapters (utility/dictionary.py).                            *)
(*                                                                         *)
(* An array value is abstracted to what the wrapped transforms change:     *)
(* its shape, its element type and whether it is a tensor.                 *)
(***************************************************************************)
Array(shape, dtype) == [shape |-> shape, dtype |-> dtype, tensor |-> FALSE]

\* Python's index normalisation of an axis number for an array of rank n
\* (1-based position in the shape sequence)
AxisPos(axis, n) == IF axis < 0 THEN axis + n + 1 ELSE axis + 1

\* np.moveaxis(img, src, dst) on the shape
MoveAxis(shape, src, dst) ==
    LET n    == Len(shape)
        s    == AxisPos(src, n)
        d    == AxisPos(dst, n)
        rest == RemoveAt(shape, s)
    IN  SubSeq(rest, 1, d - 1) \o <<shape[s]>> \o SubSeq(rest, d, n - 1)

AddChannel(img) == [img EXCEPT !.shape = <<1>> \o @]

AsChannelFirst(channel_dim, img) ==
    [img EXCEPT !.shape = MoveAxis(@, channel_dim, 0)]

AsChannelLast(channel_dim, img) ==
    [img EXCEPT !.shape = MoveAxis(@, channel_dim, -1)]

RepeatChannel(repeats, img) ==
    [img EXCEPT !.shape = [@ EXCEPT ![1] = @ * repeats]]

CastToType(dtype, img) == [img EXCEPT !.dtype = dtype]

ToTensor(img) == [img EXCEPT !.tensor = TRUE]

RECURSIVE SqueezeAll(_)
SqueezeAll(shape) ==
    IF shape = <<>> THEN <<>>
    ELSE (IF Head(shape) = 1 THEN <<>> ELSE <<Head(shape)>>)
             \o SqueezeAll(Tail(shape))

\* dim = NoDim stands for dim=None: every axis of length 1 is removed
NoDim == -99

SqueezeDim(dim, img) ==
    IF dim = NoDim THEN [img EXCEPT !.shape = SqueezeAll(@)]
    ELSE LET p == AxisPos(dim, Len(img.shape))
         IN  IF img.shape[p] = 1 THEN [img EXCEPT !.shape = RemoveAt(@, p)]
             ELSE img

\* MapTransform.__init__: the key list is stored as given; it must not be
\* empty
MapTransform(keys) == [ok |-> keys # <<>>, keys |-> keys]

\* d = dict(data): a new mapping object with the entries of data
dict(data) == [k \in DOMAIN data |-> data[k]]

\* self.converter / self.adder / self.repeater of the adapter
Converter(slf, img) ==
    CASE slf.cls = "AsChannelFirstd" -> AsChannelFirst(slf.param, img)
      [] slf.cls = "AsChannelLastd"  -> AsChannelLast(slf.param, img)
      [] slf.cls = "AddChanneld"     -> AddChannel(img)
      [] slf.cls = "RepeatChanneld"  -> RepeatChannel(slf.param, img)
      [] slf.cls = "CastToTyped"     -> CastToType(slf.param, img)
      [] slf.cls = "ToTensord"       -> ToTensor(img)
      [] slf.cls = "SqueezeDimd"     -> SqueezeDim(slf.param, img)

\* for key in self.keys: d[key] = self.converter(d[key])
\* The result is [raised, d]: d[key] of an absent key raises KeyError and
\* ends the loop.
RECURSIVE ForKeys(_, _, _)
ForKeys(slf, keys, d) ==
    IF keys = <<>> THEN [raised |-> "", d |-> d]
    ELSE IF Head(keys) \notin DOMAIN d THEN [raised |-> "KeyError", d |-> d]
    ELSE ForKeys(slf, Tail(keys),
                 [d EXCEPT ![Head(keys)] = Converter(slf, d[Head(keys)])])

\* A call's outcome: the caller's mapping object after the call (data), the
\* returned mapping (ret) and the exception raised.
Outcome(data, loop) ==
    [data |-> data, raised |-> loop.raised,
     ret  |-> IF loop.raised = "" THEN loop.d ELSE << >>]

\* a slip that works on the caller's object instead of a copy
AddChanneld_call_inplace(slf, data) ==
    LET loop == ForKeys(slf, slf.keys, data)
    IN  Outcome(loop.d, loop)

AsChannelFirstd_call(slf, data) ==
    Outcome(data, ForKeys(slf, slf.keys, dict(data)))

AsChannelLastd_call(slf, data) ==
    Outcome(data, ForKeys(slf, slf.keys, dict(data)))

AddChanneld_call(slf, data) ==
    Outcome(data, ForKeys(slf, slf.keys, dict(data)))

RepeatChanneld_call(slf, data) ==
    Outcome(data, ForKeys(slf, slf.keys, dict(data)))

CastToTyped_call(slf, data) ==
    Outcome(data, ForKeys(slf, slf.keys, dict(data)))

ToTensord_call(slf, data) ==
    Outcome(data, ForKeys(slf, slf.keys, dict(data)))

SqueezeDimd_call(slf, data) ==
    Outcome(data, ForKeys(slf, slf.keys, dict(data)))

\* a slip that keeps the listed keys instead of dropping them
DeleteKeysd_call_keep(slf, data) ==
    LET kept == {k \in DOMAIN data : k \in Range(slf.keys)}
    IN  [data |-> data, raised |-> "", ret |-> [k \in kept |-> data[k]]]

\* {key: val for key, val in data.items() if key not in self.keys}
DeleteKeysd_call(slf, data) ==
    LET kept == {k \in DOMAIN data : k \notin Range(slf.keys)}
    IN  [data |-> data, raised |-> "", ret |-> [k \in kept |-> data[k]]]

ValueAdapters ==
    {"AsChannelFirstd", "AsChannelLastd", "AddChanneld", "RepeatChanneld",
     "CastToTyped", "ToTensord", "SqueezeDimd"}

Adapter_call(slf, data) ==
    CASE slf.cls = "AsChannelFirstd" -> AsChannelFirstd_call(slf, data)
      [] slf.cls = "AsChannelLastd"  -> AsChannelLastd_call(slf, data)
      [] slf.cls = "AddChanneld"     -> AddChanneld_call(slf, data)
      [] slf.cls = "RepeatChanneld"  -> RepeatChanneld_call(slf, data)
      [] slf.cls = "CastToTyped"     -> CastToTyped_call(slf, data)
      [] slf.cls = "ToTensord"       -> ToTensord_call(slf, data)
      [] slf.cls = "SqueezeDimd"     -> SqueezeDimd_call(slf, data)
      [] slf.cls = "DeleteKeysd"     -> DeleteKeysd_call(slf, data)

(***************************************************************************)
(* Arrays with content (utils.py, transforms.py).                          *)
(*                                                                         *)
(* An ndarray is [shape, data]: data maps every 0-based index tuple of     *)
(* the shape to the element there.                                         *)
(***************************************************************************)
RECURSIVE Indices(_)
Indices(shape) ==
    IF shape = <<>> THEN {<<>>}
    ELSE {<<i>> \o t : i \in 0..(Head(shape) - 1), t \in Indices(Tail(shape))}

RECURSIVE Prod(_)
Prod(shape) == IF shape = <<>> THEN 1 ELSE Head(shape) * Prod(Tail(shape))

\* position of index tuple idx in row-major (C) order, as flatten and
\* reshape use it
RECURSIVE FlatPos(_, _)
FlatPos(idx, shape) ==
    IF idx = <<>> THEN 0
    ELSE Head(idx) * Prod(Tail(shape)) + FlatPos(Tail(idx), Tail(shape))

NdArray(shape, data) == [shape |-> shape, data |-> data]

\* np.full(shape, fill_value)
Full(shape, fill_value) ==
    NdArray(shape, [idx \in Indices(shape) |-> fill_value])

\* slice(start, stop) and slice(None)
Slice(start, stop) == [none |-> FALSE, start |-> start, stop |-> stop]

SliceNone == [none |-> TRUE, start |-> 0, stop |-> 0]

\* Python's normalisation of one slice bound for an axis of length size
SliceBound(b, size) ==
    IF b < 0 THEN Max(b + size, 0) ELSE Min(b, size)

\* first index and number of indices a slice selects on an axis of length
\* size (slice.indices)
SliceStart(sl, size) == IF sl.none THEN 0 ELSE SliceBound(sl.start, size)

SliceLen(sl, size) ==
    IF sl.none THEN size
    ELSE Max(SliceBound(sl.stop, size) - SliceBound(sl.start, size), 0)

\* np.clip(a, a_min, a_max) = minimum(maximum(a, a_min), a_max)
Clip(a, a_min, a_max) == Min(Max(a, a_min), a_max)

(***************************************************************************)
(* utils.py                                                                *)
(***************************************************************************)
\* np.any(img[..., :stop, ...]) with the slice on the given axis (0-based)
AnyBefore(img, axis, stop) ==
    \E idx \in Indices(img.shape) :
        /\ idx[axis + 1] < SliceBound(stop, img.shape[axis + 1])
        /\ img.data[idx] # 0

\* np.any(img[..., start:, ...]) with the slice on the given axis (0-based)
AnyFrom(img, axis, start) ==
    \E idx \in Indices(img.shape) :
        /\ idx[axis + 1] >= SliceBound(start, img.shape[axis + 1])
        /\ img.data[idx] # 0

\* zero_margins(img, margin)
zero_margins(img, margin) ==
    IF AnyBefore(img, 2, margin) \/ AnyFrom(img, 2, 0 - margin) THEN FALSE
    ELSE IF AnyBefore(img, 1, margin) \/ AnyFrom(img, 1, 0 - margin) THEN FALSE
    ELSE TRUE

\* a slip that clips the part after the centre by the source alone
copypaste_axis_srconly(ss, ds, sc, dc, dim) ==
    IF dim # 0
    THEN LET d1 == Clip(dim \div 2, 0, Min(sc, dc))
             d2 == Clip(dim \div 2 + 1, 0, ss - sc)
         IN  [src |-> Slice(sc - d1, sc + d2), dest |-> Slice(dc - d1, dc + d2)]
    ELSE [src |-> SliceNone, dest |-> SliceNone]

\* the body of the loop of copypaste_arrays for one axis: the pair of
\* slices for source size ss, destination size ds, centres sc and dc and
\* requested extent dim (0 stands for 0 and for None: both fail `if dim')
copypaste_axis(ss, ds, sc, dc, dim) ==
    IF dim # 0
    THEN LET d1 == Clip(dim \div 2, 0, Min(sc, dc))
             d2 == Clip(dim \div 2 + 1, 0, Min(ss - sc, ds - dc))
         IN  [src |-> Slice(sc - d1, sc + d2), dest |-> Slice(dc - d1, dc + d2)]
    ELSE [src |-> SliceNone, dest |-> SliceNone]

\* copypaste_arrays on the shapes of src and dest: zip stops at the
\* shortest of its arguments, the axes it does not reach keep slice(None)
copypaste_arrays(srcshape, destshape, srccenter, destcenter, dims) ==
    LET n == Min(Min(Len(srcshape), Len(destshape)),
                 Min(Min(Len(srccenter), Len(destcenter)), Len(dims)))
        ax(i) == copypaste_axis(srcshape[i], destshape[i], srccenter[i],
                                destcenter[i], dims[i])
    IN  [srcslices  |-> [i \in 1..Len(srcshape) |->
                            IF i <= n THEN ax(i).src ELSE SliceNone],
         destslices |-> [i \in 1..Len(destshape) |->
                            IF i <= n THEN ax(i).dest ELSE SliceNone]]

\* dest[destslices] = src[srcslices] for slice tuples selecting equally many
\* indices on every axis
AssignSlices(dest, destslices, src, srcslices) ==
    LET r      == Len(dest.shape)
        d0(i)  == SliceStart(destslices[i], dest.shape[i])
        dn(i)  == SliceLen(destslices[i], dest.shape[i])
        s0(i)  == SliceStart(srcslices[i], src.shape[i])
        inside(idx) == \A i \in 1..r : idx[i] >= d0(i) /\ idx[i] < d0(i) + dn(i)
    IN  NdArray(dest.shape,
                [idx \in Indices(dest.shape) |->
                    IF inside(idx)
                    THEN src.data[[i \in 1..r |-> idx[i] - d0(i) + s0(i)]]
                    ELSE dest.data[idx]])

\* whether the two slice tuples select equally many indices on every axis
SameExtent(dest, destslices, src, srcslices) ==
    /\ Len(dest.shape) = Len(src.shape)
    /\ \A i \in 1..Len(dest.shape) :
           SliceLen(destslices[i], dest.shape[i])
               = SliceLen(srcslices[i], src.shape[i])

\* a slip that anchors the copy at index 0 of dest instead of its centre
resize_center_corner(img, resize_dims, fill_value) ==
    LET dims == [i \in 1..Len(resize_dims) |->
                    IF resize_dims[i] # 0 THEN resize_dims[i] ELSE img.shape[i]]
        dest == Full(dims, fill_value)
        half_img_shape  == [i \in 1..Len(img.shape) |-> img.shape[i] \div 2]
        sl == copypaste_arrays(img.shape, dest.shape, half_img_shape,
                               half_img_shape, dims)
    IN  [raised |-> "",
         ret |-> AssignSlices(dest, sl.destslices, img, sl.srcslices)]

\* resize_center(img, *resize_dims, fill_value): [raised, ret]
resize_center(img, resize_dims, fill_value) ==
    LET dims == [i \in 1..Len(resize_dims) |->
                    IF resize_dims[i] # 0 THEN resize_dims[i] ELSE img.shape[i]]
        dest == Full(dims, fill_value)
        half_img_shape  == [i \in 1..Len(img.shape) |-> img.shape[i] \div 2]
        half_dest_shape == [i \in 1..Len(dest.shape) |-> dest.shape[i] \div 2]
        sl == copypaste_arrays(img.shape, dest.shape, half_img_shape,
                               half_dest_shape, dims)
    IN  IF SameExtent(dest, sl.destslices, img, sl.srcslices)
        THEN [raised |-> "",
              ret |-> AssignSlices(dest, sl.destslices, img, sl.srcslices)]
        ELSE [raised |-> "ValueError", ret |-> dest]

\* the least and the greatest element of a non-empty array
ArrMin(arr) ==
    CHOOSE m \in Range(arr.data) : \A v \in Range(arr.data) : m <= v

ArrMax(arr) ==
    CHOOSE m \in Range(arr.data) : \A v \in Range(arr.data) : m >= v

\* rescale_array(arr, minv, maxv).  The elements of the result are kept as
\* exact fractions <<numerator, denominator>>, denominator > 0.
rescale_array(arr, minv, maxv) ==
    LET mina == ArrMin(arr)
        maxa == ArrMax(arr)
    IN  IF mina = maxa
        THEN NdArray(arr.shape,
                     [idx \in Indices(arr.shape) |-> <<arr.data[idx] * minv, 1>>])
        ELSE NdArray(arr.shape,
                     [idx \in Indices(arr.shape) |->
                         <<(arr.data[idx] - mina) * (maxv - minv)
                               + minv * (maxa - mina),
                           maxa - mina>>])

\* a slip that indexes the identity with the raw label, as Python indexes a
\* row: a negative label counts from the end, a label beyond the rows has
\* no row
one_hot_nomod(labels, num_classes) ==
    LET row(v) == IF v < 0 THEN v + num_classes ELSE v
    IN  NdArray(labels.shape \o <<num_classes>>,
                [idx \in Indices(labels.shape \o <<num_classes>>) |->
                    LET v == labels.data[SubSeq(idx, 1, Len(labels.shape))]
                    IN  IF idx[Len(idx)] = row(v) THEN 1 ELSE 0])

\* one_hot(labels, num_classes)
one_hot(labels, num_classes) ==
    LET mod    == [idx \in Indices(labels.shape) |->
                      labels.data[idx] % num_classes]
        y      == [r \in 0..(num_classes - 1) |->
                      [c \in 0..(num_classes - 1) |-> IF r = c THEN 1 ELSE 0]]
        \* y[labels.flatten()]: one row of y per label, in row-major order
        flat   == [p \in 0..(Prod(labels.shape) - 1) |->
                      LET idx == CHOOSE t \in Indices(labels.shape) :
                                     FlatPos(t, labels.shape) = p
                      IN  y[mod[idx]]]
        oshape == labels.shape \o <<num_classes>>
    IN  NdArray(oshape,
                [idx \in Indices(oshape) |->
                    flat[FlatPos(idx, oshape) \div num_classes]
                        [FlatPos(idx, oshape) % num_classes]])

(***************************************************************************)
(* transforms.py: ImageEndPadder                                           *)
(***************************************************************************)
\* np.pad(img, pad_width, mode) for pad_width = [(0, after_i)], one pair
\* per axis, and the modes 'constant' (zeros) and 'edge'
Pad(img, after, mode) ==
    LET r      == Len(img.shape)
        oshape == [i \in 1..r |-> img.shape[i] + after[i]]
        inside(idx) == \A i \in 1..r : idx[i] < img.shape[i]
        edge(idx)   == [i \in 1..r |-> Min(idx[i], img.shape[i] - 1)]
    IN  NdArray(oshape,
                [idx \in Indices(oshape) |->
                    IF inside(idx) THEN img.data[idx]
                    ELSE IF mode = "constant" THEN 0
                    ELSE img.data[edge(idx)]])

\* ImageEndPadder.__init__
ImageEndPadder(out_size, mode) == [out_size |-> out_size, mode |-> mode]

\* a slip that pads by out_size instead of up to out_size
ImageEndPadder_determine_data_pad_width_add(slf, data_shape) ==
    [i \in 1..Len(slf.out_size) |-> Max(slf.out_size[i], 0)]

\* ImageEndPadder._determine_data_pad_width: the second entry of each pair
\* (the first is always 0)
ImageEndPadder_determine_data_pad_width(slf, data_shape) ==
    [i \in 1..Len(slf.out_size) |-> Max(slf.out_size[i] - data_shape[i], 0)]

\* ImageEndPadder.__call__: [raised, ret]
ImageEndPadder_call(slf, img) ==
    LET data_shape == SubSeq(img.shape, 3, Len(img.shape))
    IN  IF Len(slf.out_size) > Len(data_shape)
        THEN [raised |-> "IndexError", ret |-> img]
        ELSE LET data_pad_width ==
                     ImageEndPadder_determine_data_pad_width(slf, data_shape)
                 all_pad_width == <<0, 0>> \o data_pad_width
             IN  IF Len(all_pad_width) # Len(img.shape)
                 THEN [raised |-> "ValueError", ret |-> img]
                 ELSE [raised |-> "",
                       ret |-> Pad(img, all_pad_width, slf.mode)]

(***************************************************************************)
(* utils.py: grids and affine matrices.                                    *)
(*                                                                         *)
(* A matrix is a sequence of rows.  Grid coordinates are multiples of 1/2  *)
(* ((d - 1) / 2 is), so a grid stores HalfUnits times every coordinate,    *)
(* the homogeneous row included: a matrix applied to the stored column is  *)
(* the stored form of the matrix applied to the column.  Angles are whole  *)
(* quarter turns, whose sine and cosine are integers.                      *)
(***************************************************************************)
HalfUnits == 2

RECURSIVE SumSeq(_)
SumSeq(q) == IF q = <<>> THEN 0 ELSE Head(q) + SumSeq(Tail(q))

\* the sequence q as an explicit tuple, its elements evaluated once
Tuple(q) == SubSeq(q, 1, Len(q))

\* np.eye(n)
Eye(n) == Tuple([r \in 1..n |-> Tuple([c \in 1..n |-> IF r = c THEN 1 ELSE 0])])

\* a @ b for square matrices
MatMul(a, b) ==
    Tuple([r \in 1..Len(a) |-> Tuple([c \in 1..Len(a) |->
        SumSeq([k \in 1..Len(a) |-> a[r][k] * b[k][c]])])])

\* a @ v for a column v
MatVec(a, v) ==
    Tuple([r \in 1..Len(a) |-> SumSeq([k \in 1..Len(a) |-> a[r][k] * v[k]])])

\* np.sin and np.cos of q quarter turns
Sin(q) == CASE q % 4 = 0 -> 0 [] q % 4 = 1 -> 1 [] q % 4 = 2 -> 0 [] OTHER -> -1

Cos(q) == CASE q % 4 = 0 -> 1 [] q % 4 = 1 -> 0 [] q % 4 = 2 -> -1 [] OTHER -> 0

\* create_grid(spatial_size, spacing) with homogeneous=True; spacing << >>
\* stands for None
create_grid(spatial_size, spacing) ==
    LET n  == Len(spatial_size)
        sp == IF spacing = <<>> THEN [i \in 1..n |-> 1] ELSE spacing
        \* HalfUnits * linspace(-(d - 1) / 2 * s, (d - 1) / 2 * s, d)[i]
        coord(a, i) == (0 - (spatial_size[a] - 1)) * sp[a] + HalfUnits * sp[a] * i
        shape == <<n + 1>> \o spatial_size
    IN  NdArray(shape,
                [idx \in Indices(shape) |->
                    IF idx[1] = n THEN HalfUnits
                    ELSE coord(idx[1] + 1, idx[idx[1] + 2])])

\* the least integer not below a / b, for b > 0
CeilDiv(a, b) == 0 - ((0 - a) \div b)

\* a slip that leaves out the control points beyond the image
create_control_grid_nomargin(spatial_shape, spacing) ==
    LET n == Min(Len(spatial_shape), Len(spacing))
        grid_shape ==
            [i \in 1..n |->
                LET sz == spatial_shape[i]
                    t  == spacing[i]
                IN  IF sz % 2 = 0
                    THEN CeilDiv(sz - 1 + t, 2 * t) * 2
                    ELSE CeilDiv(sz - 1, 2 * t) * 2 + 1]
    IN  create_grid(grid_shape, spacing)

\* create_control_grid(spatial_shape, spacing)
create_control_grid(spatial_shape, spacing) ==
    LET n == Min(Len(spatial_shape), Len(spacing))
        grid_shape ==
            [i \in 1..n |->
                LET sz == spatial_shape[i]
                    t  == spacing[i]
                IN  IF sz % 2 = 0
                    \* ceil((s - 1) / (2 t) + 0.5) * 2 + 2
                    THEN CeilDiv(sz - 1 + t, 2 * t) * 2 + 2
                    \* ceil((s - 1) / (2 t)) * 2 + 3
                    ELSE CeilDiv(sz - 1, 2 * t) * 2 + 3]
    IN  create_grid(grid_shape, spacing)

\* create_rotate(spatial_dims, radians) for spatial_dims 2 or 3 and at
\* least one angle
create_rotate(spatial_dims, radians) ==
    IF spatial_dims = 2
    THEN LET sn == Sin(radians[1])
             cs == Cos(radians[1])
         IN  << <<cs, 0 - sn, 0>>, <<sn, cs, 0>>, <<0, 0, 1>> >>
    ELSE LET rx == LET sn == Sin(radians[1])
                       cs == Cos(radians[1])
                   IN  << <<1, 0, 0, 0>>, <<0, cs, 0 - sn, 0>>,
                          <<0, sn, cs, 0>>, <<0, 0, 0, 1>> >>
             ry == IF Len(radians) >= 2
                   THEN LET sn == Sin(radians[2])
                            cs == Cos(radians[2])
                        IN  MatMul(rx, << <<cs, 0, sn, 0>>, <<0, 1, 0, 0>>,
                                          <<0 - sn, 0, cs, 0>>, <<0, 0, 0, 1>> >>)
                   ELSE rx
         IN  IF Len(radians) >= 3
             THEN LET sn == Sin(radians[3])
                      cs == Cos(radians[3])
                  IN  MatMul(ry, << <<cs, 0 - sn, 0, 0>>, <<sn, cs, 0, 0>>,
                                    <<0, 0, 1, 0>>, <<0, 0, 0, 1>> >>)
             ELSE ry

\* coefs right-padded with fill to length n
PadTo(q, n, fill) ==
    Tuple([i \in 1..Max(Len(q), n) |-> IF i <= Len(q) THEN q[i] ELSE fill])

\* create_shear(spatial_dims, coefs) for spatial_dims 2 or 3
create_shear(spatial_dims, coefs) ==
    IF spatial_dims = 2
    THEN LET c == PadTo(coefs, 2, 0)
         IN  << <<1, c[1], 0>>, <<c[2], 1, 0>>, <<0, 0, 1>> >>
    ELSE LET c == PadTo(coefs, 6, 0)
         IN  << <<1, c[1], c[2], 0>>, <<c[3], 1, c[4], 0>>,
                <<c[5], c[6], 1, 0>>, <<0, 0, 0, 1>> >>

\* create_scale(spatial_dims, s)
create_scale(spatial_dims, sc) ==
    LET d == SubSeq(PadTo(sc, spatial_dims, 1), 1, spatial_dims) \o <<1>>
    IN  Tuple([r \in 1..(spatial_dims + 1) |->
            Tuple([c \in 1..(spatial_dims + 1) |-> IF r = c THEN d[r] ELSE 0])])

\* create_translate(spatial_dims, t)
create_translate(spatial_dims, t) ==
    Tuple([r \in 1..(spatial_dims + 1) |->
        Tuple([c \in 1..(spatial_dims + 1) |->
            IF r = c THEN 1
            ELSE IF c = spatial_dims + 1 /\ r <= Min(Len(t), spatial_dims)
                 THEN t[r] ELSE 0])])

(***************************************************************************)
(* transforms.py: AffineGrid.  A parameter group that is None is << >>:    *)
(* `if self.rotate_params' fails for both.                                 *)
(***************************************************************************)
\* AffineGrid.__init__
AffineGrid(rotate_params, shear_params, translate_params, scale_params, as_tensor_output) ==
    [rotate_params |-> rotate_params, shear_params |-> shear_params,
     translate_params |-> translate_params, scale_params |-> scale_params,
     as_tensor_output |-> as_tensor_output]

\* affine @ grid over the flattened spatial axes, reshaped back
ApplyAffine(affine, grid) ==
    LET n == Len(affine)
    IN  [idx \in Indices(grid.shape) |->
            MatVec(affine, [c \in 1..n |-> grid.data[<<c - 1>> \o Tail(idx)]])
                [idx[1] + 1]]

\* a slip that multiplies translate before shear
AffineGrid_affine_swapped(slf, spatial_dims) ==
    LET a0 == Eye(spatial_dims + 1)
        a1 == IF slf.rotate_params # <<>>
              THEN MatMul(a0, create_rotate(spatial_dims, slf.rotate_params))
              ELSE a0
        a2 == IF slf.translate_params # <<>>
              THEN MatMul(a1, create_translate(spatial_dims, slf.translate_params))
              ELSE a1
        a3 == IF slf.shear_params # <<>>
              THEN MatMul(a2, create_shear(spatial_dims, slf.shear_params))
              ELSE a2
    IN  IF slf.scale_params # <<>>
        THEN MatMul(a3, create_scale(spatial_dims, slf.scale_params))
        ELSE a3

\* the affine matrix AffineGrid.__call__ builds (lines 245-253)
AffineGrid_affine(slf, spatial_dims) ==
    LET a0 == Eye(spatial_dims + 1)
        a1 == IF slf.rotate_params # <<>>
              THEN MatMul(a0, create_rotate(spatial_dims, slf.rotate_params))
              ELSE a0
        a2 == IF slf.shear_params # <<>>
              THEN MatMul(a1, create_shear(spatial_dims, slf.shear_params))
              ELSE a1
        a3 == IF slf.translate_params # <<>>
              THEN MatMul(a2, create_translate(spatial_dims, slf.translate_params))
              ELSE a2
    IN  IF slf.scale_params # <<>>
        THEN MatMul(a3, create_scale(spatial_dims, slf.scale_params))
        ELSE a3

\* a slip that builds the grid from spatial_size whenever one is given
AffineGrid_call_sizefirst(slf, spatial_size, grid) ==
    IF grid.none /\ spatial_size.none
    THEN [raised |-> "ValueError", ret |-> << >>]
    ELSE LET g == IF ~spatial_size.none THEN create_grid(spatial_size.val, <<>>)
                  ELSE grid.val
             spatial_dims == Len(g.shape) - 1
         IN  [raised |-> "",
              ret |-> [shape  |-> g.shape,
                       data   |-> ApplyAffine(
                           AffineGrid_affine(slf, spatial_dims), g),
                       tensor |-> slf.as_tensor_output]]

\* AffineGrid.__call__(spatial_size, grid): [raised, ret].  An argument that
\* is None is [none |-> TRUE, ...].  The result carries whether it is a
\* tensor or an ndarray.
AffineGrid_call(slf, spatial_size, grid) ==
    IF grid.none /\ spatial_size.none
    THEN [raised |-> "ValueError", ret |-> << >>]
    ELSE LET g == IF grid.none THEN create_grid(spatial_size.val, <<>>)
                  ELSE grid.val
             spatial_dims == Len(g.shape) - 1
         IN  IF slf.rotate_params # <<>> /\ spatial_dims \notin {2, 3}
             THEN [raised |-> "ValueError", ret |-> << >>]
             ELSE IF slf.shear_params # <<>> /\ spatial_dims \notin {2, 3}
             THEN [raised |-> "NotImplementedError", ret |-> << >>]
             ELSE [raised |-> "",
                   ret |-> [shape  |-> g.shape,
                            data   |-> ApplyAffine(
                                AffineGrid_affine(slf, spatial_dims), g),
                            tensor |-> slf.as_tensor_output]]

\* an optional argument: None, or a value
None == [none |-> TRUE, val |-> << >>]

Some(v) == [none |-> FALSE, val |-> v]

(***************************************************************************)
(* transforms.py: Rotate90 and RandRotate90.                               *)
(*                                                                         *)
(* The generator self.R of a Randomizable is not part of the state: every  *)
(* draw is an input of the call.  An event of a call's trace is            *)
(* [ev, val]: what happened, and the value drawn or decided.               *)
(***************************************************************************)
Ev(name, val) == [ev |-> name, val |-> val]

\* the positions of the events named name in trace tr
Positions(tr, name) == {i \in DOMAIN tr : tr[i].ev = name}

\* float('nan') among the numbers handed as a probability, which are
\* otherwise whole multiples of 1 / DrawRes
NaN == -99

\* a < b for floats: False when either is nan
FloatLt(a, b) == a # NaN /\ b # NaN /\ a < b

\* Python's max(a, b) and min(a, b): b only when b > a, or b < a
PyMax(a, b) == IF FloatLt(a, b) THEN b ELSE a

PyMin(a, b) == IF FloatLt(b, a) THEN b ELSE a

\* np.flip(m, axis), axis 0-based
Flip(m, axis) ==
    NdArray(m.shape,
            [idx \in Indices(m.shape) |->
                m.data[[idx EXCEPT ![axis + 1] = m.shape[axis + 1] - 1 - @]]])

\* np.transpose(m, axes_list) for the permutation that swaps axes a and b
SwapAxes(m, a, b) ==
    LET sw(q) == [q EXCEPT ![a + 1] = q[b + 1], ![b + 1] = q[a + 1]]
    IN  NdArray(sw(m.shape), [idx \in Indices(sw(m.shape)) |-> m.data[sw(idx)]])

\* np.rot90(m, k, axes)
Rot90(m, k, axes) ==
    CASE k % 4 = 0 -> m
      [] k % 4 = 2 -> Flip(Flip(m, axes[1]), axes[2])
      [] k % 4 = 1 -> SwapAxes(Flip(m, axes[2]), axes[1], axes[2])
      [] OTHER     -> Flip(SwapAxes(m, axes[1], axes[2]), axes[2])

\* Rotate90(k, axes)(img)
Rotate90_call(k, axes, img) == Rot90(img, k, axes)

\* RandRotate90.__init__
RandRotate90(prob, max_k, axes) ==
    [prob |-> PyMin(PyMax(prob, 0), DrawRes), max_k |-> max_k, axes |-> axes,
     _do_transform |-> FALSE, _rand_k |-> 0]

\* a slip that lets the gate fire on a draw equal to prob
RandRotate90_randomise_le(slf, randint, random) ==
    [slf EXCEPT !._rand_k = randint + 1, !._do_transform = (slf.prob # NaN /\ random <= slf.prob)]

\* RandRotate90.randomise, for the draws R.randint(max_k) and R.random()
RandRotate90_randomise(slf, randint, random) ==
    [slf EXCEPT !._rand_k = randint + 1, !._do_transform = FloatLt(random, slf.prob)]

\* RandRotate90.__call__: [self, ret, trace]
RandRotate90_call(slf, img, randint, random) ==
    LET s1  == RandRotate90_randomise(slf, randint, random)
        pre == <<Ev("randomise", 0), Ev("R.randint", randint),
                 Ev("R.random", random), Ev("branch", s1._do_transform)>>
    IN  IF ~s1._do_transform
        THEN [self |-> s1, ret |-> img, trace |-> pre]
        ELSE [self |-> s1, ret |-> Rotate90_call(s1._rand_k, s1.axes, img),
              trace |-> pre \o <<Ev("Rotate90", s1._rand_k)>>]

(***************************************************************************)
(* transforms.py: RandAffineGrid, RandDeformGrid, Resample.                *)
(***************************************************************************)
\* RandAffineGrid.__init__
RandAffineGrid(rotate_range, shear_range, translate_range, scale_range, as_tensor_output) ==
    [rotate_range |-> rotate_range, shear_range |-> shear_range,
     translate_range |-> translate_range, scale_range |-> scale_range,
     rotate_params |-> << >>, shear_params |-> << >>,
     translate_params |-> << >>, scale_params |-> << >>,
     as_tensor_output |-> as_tensor_output]

\* RandAffineGrid.randomise; draws holds [R.uniform(-f, f) for f in range]
\* of each group, of which the groups with a falsy range are not made
RandAffineGrid_randomise(slf, draws) ==
    [slf EXCEPT
        !.rotate_params = IF slf.rotate_range # <<>> THEN draws.rotate ELSE @,
        !.shear_params = IF slf.shear_range # <<>> THEN draws.shear ELSE @,
        !.translate_params =
            IF slf.translate_range # <<>> THEN draws.translate ELSE @,
        !.scale_params = IF slf.scale_range # <<>> THEN draws.scale ELSE @]

\* RandAffineGrid.__call__(spatial_size, grid): [self, out, trace], out the
\* [raised, ret] of the AffineGrid built from the drawn parameters
RandAffineGrid_call(slf, spatial_size, grid, draws) ==
    LET s1 == RandAffineGrid_randomise(slf, draws)
        _affine_grid == AffineGrid(s1.rotate_params, s1.shear_params,
                                   s1.translate_params, s1.scale_params,
                                   s1.as_tensor_output)
    IN  [self  |-> s1,
         out   |-> AffineGrid_call(_affine_grid, spatial_size, grid),
         trace |-> <<Ev("RandAffineGrid.randomise", draws), Ev("AffineGrid", 0)>>]

\* RandDeformGrid.__init__; random_offset is not set before the first call
RandDeformGrid(spacing, magnitude_range, as_tensor_output) ==
    [spacing |-> spacing, magnitude |-> magnitude_range, rand_mag |-> 1,
     random_offset |-> << >>, as_tensor_output |-> as_tensor_output]

\* RandDeformGrid.randomise(grid_size), for the draws R.normal(size=...) and
\* R.uniform(magnitude[0], magnitude[1])
RandDeformGrid_randomise(slf, grid_size, normal, uniform) ==
    [slf EXCEPT !.random_offset = NdArray(<<Len(grid_size)>> \o grid_size, normal),
                !.rand_mag = uniform]

\* RandDeformGrid.__call__(spatial_size): [self, ret, trace]
RandDeformGrid_call(slf, spatial_size, normal, uniform) ==
    LET control_grid == create_control_grid(spatial_size, slf.spacing)
        s1 == RandDeformGrid_randomise(slf, Tail(control_grid.shape),
                                       normal, uniform)
        n  == Len(spatial_size)
    IN  [self  |-> s1,
         ret   |-> [shape  |-> control_grid.shape,
                    data   |-> [idx \in Indices(control_grid.shape) |->
                                  IF idx[1] < n
                                  THEN control_grid.data[idx]
                                       + HalfUnits * s1.rand_mag
                                         * s1.random_offset.data[idx]
                                  ELSE control_grid.data[idx]],
                    tensor |-> slf.as_tensor_output],
         trace |-> <<Ev("create_control_grid", 0),
                     Ev("RandDeformGrid.randomise", uniform)>>]

\* Resample.__init__
Resample(padding_mode, as_tensor_output) ==
    [padding_mode |-> padding_mode, as_tensor_output |-> as_tensor_output]

\* Resample.__call__(img, grid, mode).  The sampling itself is
\* torch.nn.functional.grid_sample: the result is kept as the operation and
\* its operands.
Resample_call(slf, img, grid, mode) ==
    [op |-> "grid_sample", img |-> img,
     grid |-> [shape |-> grid.shape, data |-> grid.data],
     mode |-> mode, padding_mode |-> slf.padding_mode,
     tensor |-> slf.as_tensor_output]

\* torch.tensor(create_grid(spatial_size))
IdentityGrid(spatial_size) ==
    LET g == create_grid(spatial_size, <<>>)
    IN  [shape |-> g.shape, data |-> g.data, tensor |-> TRUE]

(***************************************************************************)
(* transforms.py: RandAffine, Rand2DElastic, Rand3DElastic.  A call gives  *)
(* [self, raised, ret, trace].                                             *)
(***************************************************************************)
\* RandAffine.__init__; prob is stored as given
RandAffine(prob, rotate_range, shear_range, translate_range, scale_range) ==
    [rand_affine_grid |-> RandAffineGrid(rotate_range, shear_range,
                                         translate_range, scale_range, TRUE),
     resampler |-> Resample("zeros", TRUE),
     do_transform |-> FALSE, prob |-> prob]

\* RandAffine.randomise, for the draw R.rand()
RandAffine_randomise(slf, rand) == [slf EXCEPT !.do_transform = FloatLt(rand, slf.prob)]

\* a slip that resamples the affine parameters before looking at the gate
RandAffine_call_always(slf, img, spatial_size, mode, rand, draws) ==
    LET s1  == RandAffine_randomise(slf, rand)
        g   == RandAffineGrid_call(s1.rand_affine_grid, Some(spatial_size),
                                   None, draws)
        s2  == [s1 EXCEPT !.rand_affine_grid = g.self]
        pre == <<Ev("randomise", 0), Ev("R.rand", rand)>> \o g.trace
                   \o <<Ev("branch", s1.do_transform)>>
    IN  IF s1.do_transform
        THEN [self |-> s2, raised |-> "",
              ret |-> Resample_call(s2.resampler, img, g.out.ret, mode),
              trace |-> pre \o <<Ev("resampler", 0)>>]
        ELSE [self |-> s2, raised |-> "",
              ret |-> Resample_call(s2.resampler, img,
                                    IdentityGrid(spatial_size), mode),
              trace |-> pre \o <<Ev("create_grid", 0), Ev("resampler", 0)>>]

\* RandAffine.__call__(img, spatial_size, mode)
RandAffine_call(slf, img, spatial_size, mode, rand, draws) ==
    LET s1  == RandAffine_randomise(slf, rand)
        pre == <<Ev("randomise", 0), Ev("R.rand", rand),
                 Ev("branch", s1.do_transform)>>
    IN  IF s1.do_transform
        THEN LET g  == RandAffineGrid_call(s1.rand_affine_grid,
                                           Some(spatial_size), None, draws)
                 s2 == [s1 EXCEPT !.rand_affine_grid = g.self]
             IN  IF g.out.raised # ""
                 THEN [self |-> s2, raised |-> g.out.raised, ret |-> << >>,
                       trace |-> pre \o g.trace]
                 ELSE [self |-> s2, raised |-> "",
                       ret |-> Resample_call(s2.resampler, img, g.out.ret, mode),
                       trace |-> pre \o g.trace \o <<Ev("resampler", 0)>>]
        ELSE [self |-> s1, raised |-> "",
              ret |-> Resample_call(s1.resampler, img,
                                    IdentityGrid(spatial_size), mode),
              trace |-> pre \o <<Ev("create_grid", 0), Ev("resampler", 0)>>]

\* Rand2DElastic.__init__
Rand2DElastic(spacing, magnitude_range, prob, rotate_range, shear_range, translate_range, scale_range) ==
    [deform_grid |-> RandDeformGrid(spacing, magnitude_range, TRUE),
     rand_affine_grid |-> RandAffineGrid(rotate_range, shear_range,
                                         translate_range, scale_range, TRUE),
     resampler |-> Resample("zeros", FALSE),
     prob |-> prob, do_transform |-> FALSE]

\* Rand2DElastic.randomise, for the draw R.rand()
Rand2DElastic_randomise(slf, rand) == [slf EXCEPT !.do_transform = FloatLt(rand, slf.prob)]

\* torch.nn.functional.interpolate(grid[None], spatial_size,
\* mode='bicubic')[0], kept as the operation and its operands
Interpolate(grid, spatial_size) ==
    [shape  |-> <<Head(grid.shape)>> \o spatial_size,
     data   |-> [op |-> "interpolate", grid |-> grid.data, mode |-> "bicubic"],
     tensor |-> TRUE]

\* Rand2DElastic.__call__(img, spatial_size, mode)
Rand2DElastic_call(slf, img, spatial_size, mode, rand, normal, uniform, draws) ==
    LET s1  == Rand2DElastic_randomise(slf, rand)
        pre == <<Ev("randomise", 0), Ev("R.rand", rand),
                 Ev("branch", s1.do_transform)>>
    IN  IF s1.do_transform
        THEN LET d  == RandDeformGrid_call(s1.deform_grid, spatial_size,
                                           normal, uniform)
                 g  == RandAffineGrid_call(s1.rand_affine_grid, None,
                                           Some(d.ret), draws)
                 s2 == [s1 EXCEPT !.deform_grid = d.self,
                                  !.rand_affine_grid = g.self]
             IN  IF g.out.raised # ""
                 THEN [self |-> s2, raised |-> g.out.raised, ret |-> << >>,
                       trace |-> pre \o d.trace \o g.trace]
                 ELSE [self |-> s2, raised |-> "",
                       ret |-> Resample_call(s2.resampler, img,
                                   Interpolate(g.out.ret, spatial_size), mode),
                       trace |-> pre \o d.trace \o g.trace
                                 \o <<Ev("interpolate", 0), Ev("resampler", 0)>>]
        ELSE [self |-> s1, raised |-> "",
              ret |-> Resample_call(s1.resampler, img,
                                    IdentityGrid(spatial_size), mode),
              trace |-> pre \o <<Ev("create_grid", 0), Ev("resampler", 0)>>]

\* Rand3DElastic.__init__: alpha_range and sigma_range are not stored
Rand3DElastic(alpha_range, sigma_range, prob, rotate_range, shear_range, translate_range, scale_range) ==
    [rand_affine_grid |-> RandAffineGrid(rotate_range, shear_range,
                                         translate_range, scale_range, TRUE),
     resampler |-> Resample("zeros", FALSE),
     prob |-> prob, do_transform |-> FALSE, rand_offset |-> << >>,
     alpha |-> 1, sigma |-> 1]

\* Rand3DElastic.randomise(grid_size), for the draw R.rand(): [self, raised].
\* After the gate is stored, the step reads self.R.random.uniform if the
\* gate is set and self.alpha_range if not; neither attribute exists.
Rand3DElastic_randomise(slf, grid_size, rand) ==
    [self   |-> [slf EXCEPT !.do_transform = FloatLt(rand, slf.prob)],
     raised |-> "AttributeError"]

\* a slip that draws the gate at the start of the call, as the sibling
\* transforms do
Rand3DElastic_call_fresh(slf, img, spatial_size, mode, rand) ==
    LET s1  == [slf EXCEPT !.do_transform = FloatLt(rand, slf.prob)]
        pre == <<Ev("randomise", 0), Ev("R.rand", rand),
                 Ev("branch", s1.do_transform), Ev("create_grid", 0)>>
    IN  IF s1.do_transform
        THEN [self |-> s1, raised |-> "AttributeError", ret |-> << >>,
              trace |-> pre]
        ELSE [self |-> s1, raised |-> "",
              ret |-> Resample_call(s1.resampler, img,
                                    IdentityGrid(spatial_size), mode),
              trace |-> pre \o <<Ev("resampler", 0)>>]

\* a slip that draws, on the identity branch too, the gate of the next call
Rand3DElastic_call_lag(slf, img, spatial_size, mode, rand) ==
    IF slf.do_transform
    THEN [self |-> [slf EXCEPT !.do_transform = FloatLt(rand, slf.prob)],
          raised |-> "AttributeError", ret |-> << >>,
          trace |-> <<Ev("branch", TRUE), Ev("create_grid", 0),
                      Ev("randomise", 0), Ev("R.rand", rand)>>]
    ELSE [self |-> [slf EXCEPT !.do_transform = FloatLt(rand, slf.prob)],
          raised |-> "",
          ret |-> Resample_call(slf.resampler, img,
                                IdentityGrid(spatial_size), mode),
          trace |-> <<Ev("branch", FALSE), Ev("create_grid", 0),
                      Ev("randomise", 0), Ev("R.rand", rand),
                      Ev("resampler", 0)>>]

\* Rand3DElastic.__call__(img, spatial_size, mode): the stored gate is read
\* first, and randomise runs only inside the branch it opens
Rand3DElastic_call(slf, img, spatial_size, mode, rand) ==
    IF slf.do_transform
    THEN LET grid == create_grid(spatial_size, <<>>)
             r    == Rand3DElastic_randomise(slf, Tail(grid.shape), rand)
         IN  [self |-> r.self, raised |-> r.raised, ret |-> << >>,
              trace |-> <<Ev("branch", TRUE), Ev("create_grid", 0),
                          Ev("randomise", 0), Ev("R.rand", rand)>>]
    ELSE [self |-> slf, raised |-> "",
          ret |-> Resample_call(slf.resampler, img,
                                IdentityGrid(spatial_size), mode),
          trace |-> <<Ev("branch", FALSE), Ev("create_grid", 0),
                      Ev("resampler", 0)>>]

(***************************************************************************)
(* transforms.py: the constructors that validate their arguments.  An      *)
(* argument is [type, val], type the name of its Python type.  The checks  *)
(* are assert statements, which the interpreter executes only while        *)
(* __debug__ holds (it does not under -O); debug is that flag.             *)
(***************************************************************************)
Value(type, val) == [type |-> type, val |-> val]

\* isinstance(x, np.ndarray)
IsNdarray(x) == x.type = "ndarray"

\* IntensityNormalizer.__init__(subtrahend, divisor): [raised, self]
IntensityNormalizer_init(subtrahend, divisor, debug) ==
    IF /\ debug
       /\ (subtrahend.type # "NoneType" \/ divisor.type # "NoneType")
       /\ ~(IsNdarray(subtrahend) /\ IsNdarray(divisor))
    THEN [raised |-> "AssertionError", self |-> << >>]
    ELSE [raised |-> "",
          self |-> [subtrahend |-> subtrahend, divisor |-> divisor]]

\* ImageEndPadder.__init__(out_size, mode), arguments of any type:
\* [raised, self]
ImageEndPadder_init(out_size, mode, debug) ==
    IF debug /\ ~(out_size.type # "NoneType" /\ out_size.type \in {"list", "tuple"})
    THEN [raised |-> "AssertionError", self |-> << >>]
    ELSE IF debug /\ mode.type # "str"
    THEN [raised |-> "AssertionError", self |-> << >>]
    ELSE [raised |-> "", self |-> [out_size |-> out_size, mode |-> mode]]

\* the inputs of the adapters
KeyUniverse == {"img", "seg", "meta"}

SampleValues ==
    {Array(<<1, 2>>, "int64"), Array(<<2, 1, 3>>, "float64")}

Mappings == UNION {[D -> SampleValues] : D \in SUBSET KeyUniverse}

KeyLists == SeqsOf(KeyUniverse, 1, MaxKeys)

\* the constructor's default of each adapter, and one other setting
AdapterParams(cls) ==
    CASE cls = "AsChannelFirstd" -> {-1, 1}
      [] cls = "AsChannelLastd"  -> {0, 1}
      [] cls = "RepeatChanneld"  -> {2}
      [] cls = "CastToTyped"     -> {"float32"}
      [] cls = "SqueezeDimd"     -> {NoDim, 0}
      [] OTHER                   -> {0}

InitAdapter ==
    /\ fn \in ValueAdapters \cup {"DeleteKeysd"}
    /\ \E keys \in KeyLists, p \in AdapterParams(fn) :
           /\ MapTransform(keys).ok
           /\ ctor = [keys |-> keys, param |-> p]
           /\ self = [cls |-> fn, keys |-> MapTransform(keys).keys,
                      param |-> p]
    /\ arg \in Mappings
    /\ ret = << >>
    /\ raised = ""
    /\ trace = << >>
    /\ ncalls = 0

\* adapter(data)
CallAdapter ==
    /\ fn \in ValueAdapters \cup {"DeleteKeysd"}
    /\ ncalls = 0
    /\ LET out == Adapter_call(self, arg)
       IN  /\ arg' = out.data
           /\ ret' = out.ret
           /\ raised' = out.raised
    /\ ncalls' = 1
    /\ UNCHANGED <<fn, ctor, self, trace>>

\* the inputs of the functions of utils.py
Ranks == {1, 2}

ShapesOf(rank) == {sh \in [1..rank -> 1..MaxElems] : Prod(sh) <= MaxElems}

\* the contents tried for an array of a shape: every element its row-major
\* position plus one, all zeros, all ones
Contents(shape) ==
    {[idx \in Indices(shape) |-> FlatPos(idx, shape) + 1]}
        \cup {[idx \in Indices(shape) |-> c] : c \in {0, 1}}

CentersOf(shape) ==
    {c \in [1..Len(shape) -> 0..(MaxElems - 1)] :
        \A i \in 1..Len(shape) : c[i] < shape[i]}

PureInit ==
    /\ self = << >> /\ ctor = << >>
    /\ ret = << >> /\ raised = "" /\ trace = << >> /\ ncalls = 0

InitCopypaste ==
    /\ fn = "copypaste_arrays"
    /\ \E r \in Ranks : \E ss \in ShapesOf(r), ds \in ShapesOf(r) :
         \E sc \in CentersOf(ss), dc \in CentersOf(ds) :
           \E dims \in SeqsOf(0..MaxElems, 0, r) :
              arg = [srcshape |-> ss, destshape |-> ds, srccenter |-> sc,
                     destcenter |-> dc, dims |-> dims]
    /\ PureInit

\* channel-first images of zeros and ones with two spatial axes
MarginImages ==
    UNION {{NdArray(sh, data) : data \in [Indices(sh) -> {0, 1}]} :
              sh \in {sh \in [1..3 -> 1..MaxSide] :
                         sh[1] <= 2 /\ Prod(sh) <= MaxVoxels}}

InitZeroMargins ==
    /\ fn = "zero_margins"
    /\ \E img \in MarginImages, margin \in 0..MaxSide :
          arg = [img |-> img, margin |-> margin]
    /\ PureInit

InitControlGrid ==
    /\ fn = "create_control_grid"
    /\ \E r \in Ranks :
          \E spatial_shape \in [1..r -> 1..(2 * MaxSide)],
             spacing \in [1..r -> 1..MaxSide] :
                arg = [spatial_shape |-> spatial_shape, spacing |-> spacing]
    /\ PureInit

InitResizeCenter ==
    /\ fn = "resize_center"
    /\ \E r \in Ranks : \E sh \in ShapesOf(r) :
         \E data \in Contents(sh), dims \in [1..r -> 0..(MaxElems + 1)],
            fill \in {0, 7} :
              arg = [img |-> NdArray(sh, data), resize_dims |-> dims,
                     fill_value |-> fill]
    /\ PureInit

RescaleValues == {0, 1, 5}

RescaleBounds == {0, 2, 9}

InitRescale ==
    /\ fn = "rescale_array"
    /\ \E sh \in ShapesOf(1) :
         \E data \in [Indices(sh) -> RescaleValues],
            minv \in RescaleBounds, maxv \in RescaleBounds :
              arg = [arr |-> NdArray(sh, data), minv |-> minv, maxv |-> maxv]
    /\ PureInit

LabelValues == {-1, 0, 1, 3}

InitOneHot ==
    /\ fn = "one_hot"
    /\ \E r \in Ranks : \E sh \in ShapesOf(r) :
         \E data \in [Indices(sh) -> LabelValues], n \in 1..MaxClasses :
              arg = [labels |-> NdArray(sh, data), num_classes |-> n]
    /\ PureInit

InitPadder ==
    /\ fn = "ImageEndPadder"
    /\ \E out_size \in SeqsOf(0..(MaxElems + 1), 1, 2),
          mode \in {"constant", "edge"} :
         /\ ctor = [out_size |-> out_size, mode |-> mode]
         /\ self = ImageEndPadder(out_size, mode)
    /\ \E r \in {3, 4} : \E sh \in ShapesOf(r) : \E data \in Contents(sh) :
         arg = NdArray(sh, data)
    /\ ret = << >> /\ raised = "" /\ trace = << >> /\ ncalls = 0

\* copypaste_arrays(src, dest, srccenter, destcenter, dims)
CallCopypaste ==
    /\ fn = "copypaste_arrays" /\ ncalls = 0
    /\ ret' = copypaste_arrays(arg.srcshape, arg.destshape, arg.srccenter,
                               arg.destcenter, arg.dims)
    /\ ncalls' = 1
    /\ UNCHANGED <<fn, self, ctor, arg, raised, trace>>

CallZeroMargins ==
    /\ fn = "zero_margins" /\ ncalls = 0
    /\ ret' = zero_margins(arg.img, arg.margin)
    /\ ncalls' = 1
    /\ UNCHANGED <<fn, self, ctor, arg, raised, trace>>

CallControlGrid ==
    /\ fn = "create_control_grid" /\ ncalls = 0
    /\ ret' = create_control_grid(arg.spatial_shape, arg.spacing)
    /\ ncalls' = 1
    /\ UNCHANGED <<fn, self, ctor, arg, raised, trace>>

\* resize_center(img, *resize_dims, fill_value=fill_value)
CallResizeCenter ==
    /\ fn = "resize_center" /\ ncalls = 0
    /\ LET out == resize_center(arg.img, arg.resize_dims, arg.fill_value)
       IN  ret' = out.ret /\ raised' = out.raised
    /\ ncalls' = 1
    /\ UNCHANGED <<fn, self, ctor, arg, trace>>

\* rescale_array(arr, minv, maxv)
CallRescale ==
    /\ fn = "rescale_array" /\ ncalls = 0
    /\ ret' = rescale_array(arg.arr, arg.minv, arg.maxv)
    /\ ncalls' = 1
    /\ UNCHANGED <<fn, self, ctor, arg, raised, trace>>

\* one_hot(labels, num_classes)
CallOneHot ==
    /\ fn = "one_hot" /\ ncalls = 0
    /\ ret' = one_hot(arg.labels, arg.num_classes)
    /\ ncalls' = 1
    /\ UNCHANGED <<fn, self, ctor, arg, raised, trace>>

\* padder(img)
CallPadder ==
    /\ fn = "ImageEndPadder" /\ ncalls = 0
    /\ LET out == ImageEndPadder_call(self, arg)
       IN  ret' = out.ret /\ raised' = out.raised
    /\ ncalls' = 1
    /\ UNCHANGED <<fn, self, ctor, arg, trace>>

\* the inputs of AffineGrid: parameter groups (<< >>: not supplied),
\* spatial sizes of rank 2 and 3, and control grids handed in as `grid'
RotateParams(n) == IF n = 2 THEN {<<>>, <<1>>, <<2>>}
                   ELSE {<<>>, <<1>>, <<1, 1>>, <<3, 1, 2>>}

ShearParams == {<<>>, <<1>>, <<1, 2>>}

TranslateParams == {<<>>, <<3>>, <<1, 2>>}

ScaleParams == {<<>>, <<2>>, <<2, 3>>}

SpatialSizes(n) == {sz \in [1..n -> 1..MaxElems] : Prod(sz) <= MaxElems}

GivenGrids == {create_grid(<<2, 2>>, <<2, 2>>), create_grid(<<1, 2, 1>>, <<>>)}

InitAffineGrid ==
    /\ fn = "AffineGrid"
    /\ \E n \in {2, 3} :
         /\ \E r \in RotateParams(n), sh \in ShearParams,
               t \in TranslateParams, z \in ScaleParams, tens \in BOOLEAN :
              /\ ctor = [rotate_params |-> r, shear_params |-> sh,
                         translate_params |-> t, scale_params |-> z,
                         as_tensor_output |-> tens]
              /\ self = AffineGrid(r, sh, t, z, tens)
         /\ \/ \E sz \in SpatialSizes(n) :
                 arg = [spatial_size |-> Some(sz), grid |-> None]
            \/ \E g \in GivenGrids, sz \in {None, Some(<<1, 1>>)} :
                 /\ Len(g.shape) = n + 1
                 /\ arg = [spatial_size |-> sz, grid |-> Some(g)]
            \/ arg = [spatial_size |-> None, grid |-> None]
    /\ ret = << >> /\ raised = "" /\ trace = << >> /\ ncalls = 0

\* affine_grid(spatial_size, grid)
CallAffineGrid ==
    /\ fn = "AffineGrid" /\ ncalls = 0
    /\ LET out == AffineGrid_call(self, arg.spatial_size, arg.grid)
       IN  ret' = out.ret /\ raised' = out.raised
    /\ ncalls' = 1
    /\ UNCHANGED <<fn, self, ctor, arg, trace>>

\* the probabilities handed to a randomized transform: nan, below 0, 0,
\* inside (0, 1), 1, above 1
Probs == {NaN, -1, 0, DrawRes \div 2, DrawRes, DrawRes + 1}

\* a draw of R.random() or R.rand()
UnitDraws == 0..(DrawRes - 1)

RotateImages ==
    {NdArray(sh, data) : sh \in {<<1, 1, 2>>}, data \in Contents(<<1, 1, 2>>)}
        \cup {NdArray(sh, data) : sh \in {<<1, 2, 2>>}, data \in Contents(<<1, 2, 2>>)}

InitRandRotate90 ==
    /\ fn = "RandRotate90"
    /\ \E prob \in Probs, max_k \in 1..MaxK :
         /\ ctor = [prob |-> prob, max_k |-> max_k, axes |-> <<1, 2>>]
         /\ self = RandRotate90(prob, max_k, <<1, 2>>)
    /\ arg = << >> /\ ret = << >> /\ raised = "" /\ trace = << >> /\ ncalls = 0

\* rand_rotate90(img)
CallRandRotate90 ==
    /\ fn = "RandRotate90" /\ ncalls < MaxCalls
    /\ \E img \in RotateImages, randint \in 0..(self.max_k - 1),
          random \in UnitDraws :
         LET out == RandRotate90_call(self, img, randint, random)
         IN  /\ arg' = img
             /\ self' = out.self
             /\ ret' = out.ret
             /\ trace' = out.trace
    /\ ncalls' = ncalls + 1
    /\ UNCHANGED <<fn, ctor, raised>>

\* [R.uniform(-f, f) for f in range], resolved to whole numbers
RECURSIVE UniformDraws(_)
UniformDraws(range) ==
    IF range = <<>> THEN {<<>>}
    ELSE {<<x>> \o t : x \in (0 - Head(range))..Head(range),
                       t \in UniformDraws(Tail(range))}

\* the draws of one RandAffineGrid.randomise
AffineDraws(g) ==
    [rotate : UniformDraws(g.rotate_range), shear : UniformDraws(g.shear_range),
     translate : UniformDraws(g.translate_range),
     scale : UniformDraws(g.scale_range)]

Ranges(rotate_range, shear_range, translate_range, scale_range) ==
    [rotate_range |-> rotate_range, shear_range |-> shear_range,
     translate_range |-> translate_range, scale_range |-> scale_range]

\* the range groups a randomized transform is built with: none, a rotation,
\* a scale
RangeConfigs ==
    {Ranges(<<>>, <<>>, <<>>, <<>>), Ranges(<<1>>, <<>>, <<>>, <<>>),
     Ranges(<<>>, <<>>, <<>>, <<1>>)}

Modes == {"bilinear", "nearest"}

InitRandAffine ==
    /\ fn = "RandAffine"
    /\ \E prob \in Probs, rg \in RangeConfigs :
         /\ ctor = [prob |-> prob, ranges |-> rg]
         /\ self = RandAffine(prob, rg.rotate_range, rg.shear_range,
                              rg.translate_range, rg.scale_range)
    /\ arg = << >> /\ ret = << >> /\ raised = "" /\ trace = << >> /\ ncalls = 0

\* rand_affine(img, spatial_size, mode)
CallRandAffine ==
    /\ fn = "RandAffine" /\ ncalls < MaxCalls
    /\ \E spatial_size \in {<<1, 2>>, <<2, 2>>}, rand \in UnitDraws,
          draws \in AffineDraws(self.rand_affine_grid) :
         LET img == Full(<<1, 1, 2>>, 1)
             out == RandAffine_call(self, img, spatial_size, "bilinear",
                                    rand, draws)
         IN  /\ arg' = [img |-> img, spatial_size |-> spatial_size,
                        mode |-> "bilinear"]
             /\ self' = out.self
             /\ raised' = out.raised
             /\ ret' = out.ret
             /\ trace' = out.trace
    /\ ncalls' = ncalls + 1
    /\ UNCHANGED <<fn, ctor>>

\* R.normal(size=shape), resolved to one whole number for the array
NormalDraws(shape) == {[idx \in Indices(shape) |-> o] : o \in {-1, 1}}

InitRand2DElastic ==
    /\ fn = "Rand2DElastic"
    /\ \E prob \in Probs, rg \in {Ranges(<<1>>, <<>>, <<>>, <<>>)} :
         /\ ctor = [prob |-> prob, ranges |-> rg, spacing |-> <<2, 2>>,
                    magnitude_range |-> <<2, 2>>]
         /\ self = Rand2DElastic(<<2, 2>>, <<2, 2>>, prob, rg.rotate_range,
                                 rg.shear_range, rg.translate_range,
                                 rg.scale_range)
    /\ arg = << >> /\ ret = << >> /\ raised = "" /\ trace = << >> /\ ncalls = 0

\* rand_2d_elastic(img, spatial_size, mode)
CallRand2DElastic ==
    /\ fn = "Rand2DElastic" /\ ncalls < MaxCalls
    /\ \E spatial_size \in {<<1, 2>>, <<2, 2>>}, rand \in UnitDraws,
          draws \in AffineDraws(self.rand_affine_grid),
          uniform \in
              self.deform_grid.magnitude[1]..self.deform_grid.magnitude[2] :
         \E normal \in NormalDraws(
                create_control_grid(spatial_size, self.deform_grid.spacing).shape) :
           LET img == Full(<<1, 1, 2>>, 1)
               out == Rand2DElastic_call(self, img, spatial_size, "bilinear",
                                         rand, normal, uniform, draws)
           IN  /\ arg' = [img |-> img, spatial_size |-> spatial_size,
                          mode |-> "bilinear"]
               /\ self' = out.self
               /\ raised' = out.raised
               /\ ret' = out.ret
               /\ trace' = out.trace
    /\ ncalls' = ncalls + 1
    /\ UNCHANGED <<fn, ctor>>

InitRand3DElastic ==
    /\ fn = "Rand3DElastic"
    /\ \E prob \in Probs, rg \in RangeConfigs :
         /\ ctor = [prob |-> prob, ranges |-> rg, alpha_range |-> <<1, 2>>,
                    sigma_range |-> <<1, 2>>]
         /\ self = Rand3DElastic(<<1, 2>>, <<1, 2>>, prob, rg.rotate_range,
                                 rg.shear_range, rg.translate_range,
                                 rg.scale_range)
    /\ arg = << >> /\ ret = << >> /\ raised = "" /\ trace = << >> /\ ncalls = 0

\* rand_3d_elastic(img, spatial_size, mode)
CallRand3DElastic ==
    /\ fn = "Rand3DElastic" /\ ncalls < MaxCalls
    /\ \E spatial_size \in {<<1, 1, 2>>, <<2, 1, 1>>, <<1, 2, 2>>},
          mode \in Modes, rand \in UnitDraws :
         LET img == Full(<<1, 1, 1, 2>>, 1)
             out == Rand3DElastic_call(self, img, spatial_size, mode, rand)
         IN  /\ arg' = [img |-> img, spatial_size |-> spatial_size, mode |-> mode]
             /\ self' = out.self
             /\ raised' = out.raised
             /\ ret' = out.ret
             /\ trace' = out.trace
    /\ ncalls' = ncalls + 1
    /\ UNCHANGED <<fn, ctor>>

\* values of several types handed to a constructor; val lists the numbers
\* of the value (none for None, one for a scalar), or is the text of a mode
NormalizerArgs ==
    {Value("NoneType", <<>>), Value("ndarray", <<1, 2>>), Value("float", <<1>>),
     Value("list", <<1, 2>>)}

OutSizeArgs ==
    {Value("NoneType", <<>>), Value("list", <<2, 3>>), Value("tuple", <<2, 3>>),
     Value("int", <<3>>), Value("ndarray", <<2, 3>>)}

ModeArgs == {Value("str", "constant"), Value("NoneType", "None"), Value("int", "1")}

\* before IntensityNormalizer(subtrahend, divisor)
InitIntensityNormalizer ==
    /\ fn = "IntensityNormalizer.__init__"
    /\ \E subtrahend \in NormalizerArgs, divisor \in NormalizerArgs,
          debug \in BOOLEAN :
         ctor = [subtrahend |-> subtrahend, divisor |-> divisor, debug |-> debug]
    /\ self = << >> /\ arg = << >> /\ ret = << >> /\ raised = ""
    /\ trace = << >> /\ ncalls = 0

\* IntensityNormalizer(subtrahend, divisor)
ConstructIntensityNormalizer ==
    /\ fn = "IntensityNormalizer.__init__" /\ ncalls = 0
    /\ LET out == IntensityNormalizer_init(ctor.subtrahend, ctor.divisor,
                                           ctor.debug)
       IN  self' = out.self /\ raised' = out.raised
    /\ ncalls' = 1
    /\ UNCHANGED <<fn, ctor, arg, ret, trace>>

\* before ImageEndPadder(out_size, mode)
InitImageEndPadder ==
    /\ fn = "ImageEndPadder.__init__"
    /\ \E out_size \in OutSizeArgs, mode \in ModeArgs, debug \in BOOLEAN :
         ctor = [out_size |-> out_size, mode |-> mode, debug |-> debug]
    /\ self = << >> /\ arg = << >> /\ ret = << >> /\ raised = ""
    /\ trace = << >> /\ ncalls = 0

\* ImageEndPadder(out_size, mode)
ConstructImageEndPadder ==
    /\ fn = "ImageEndPadder.__init__" /\ ncalls = 0
    /\ LET out == ImageEndPadder_init(ctor.out_size, ctor.mode, ctor.debug)
       IN  self' = out.self /\ raised' = out.raised
    /\ ncalls' = 1
    /\ UNCHANGED <<fn, ctor, arg, ret, trace>>

Init ==
    \/ InitAdapter
    \/ InitIntensityNormalizer
    \/ InitImageEndPadder
    \/ InitRandAffine
    \/ InitRand2DElastic
    \/ InitRand3DElastic
    \/ InitRandRotate90
    \/ InitAffineGrid
    \/ InitCopypaste
    \/ InitZeroMargins
    \/ InitControlGrid
    \/ InitResizeCenter
    \/ InitRescale
    \/ InitOneHot
    \/ InitPadder

Next ==
    \/ CallAdapter
    \/ ConstructIntensityNormalizer
    \/ ConstructImageEndPadder
    \/ CallRandRotate90
    \/ CallRandAffine
    \/ CallRand2DElastic
    \/ CallRand3DElastic
    \/ CallAffineGrid
    \/ CallCopypaste
    \/ CallZeroMargins
    \/ CallControlGrid
    \/ CallResizeCenter
    \/ CallRescale
    \/ CallOneHot
    \/ CallPadder

Spec == Init /\ [][Next]_vars


(***************************************************************************)
(* Properties of the dictionary adapters.                                  *)
(***************************************************************************)
\* the step is a call of a value-transforming adapter on a mapping that
\* holds every key of its key list
ValueAdapterCall ==
    /\ fn \in ValueAdapters
    /\ ncalls = 0 /\ ncalls' = 1
    /\ Range(self.keys) \subseteq DOMAIN arg

\* the wrapped transform applied n times
RECURSIVE ConverterTimes(_, _, _)
ConverterTimes(slf, img, n) ==
    IF n = 0 THEN img ELSE Converter(slf, ConverterTimes(slf, img, n - 1))

\* C1 as stated: a value-transforming adapter called on a mapping holding
\* all its keys returns a mapping with the same key set, in which every
\* listed key maps to the wrapped transform's output on the original value
\* and every other key to its original value; the caller's mapping is the
\* same after the call.
C1_AsStated ==
    [][ValueAdapterCall =>
          /\ raised' = ""
          /\ DOMAIN ret' = DOMAIN arg
          /\ \A k \in DOMAIN arg :
                 ret'[k] = IF k \in Range(self.keys)
                           THEN Converter(self, arg[k]) ELSE arg[k]
          /\ arg' = arg]_vars

\* C1 amended: as C1, except that a listed key maps to the wrapped transform
\* applied to the original value once per occurrence of the key in the key
\* list (its output on the original value when the key is listed once).
C1_PerOccurrence ==
    [][ValueAdapterCall =>
          /\ raised' = ""
          /\ DOMAIN ret' = DOMAIN arg
          /\ \A k \in DOMAIN arg :
                 ret'[k] = ConverterTimes(self, arg[k], Count(self.keys, k))
          /\ arg' = arg]_vars

\* a call that transformed one listed key and passed another key through
C1_Witness ==
    /\ fn = "AddChanneld" /\ ncalls = 1 /\ raised = ""
    /\ self.keys = <<"img">>
    /\ DOMAIN arg = {"img", "seg"}
    /\ ret["img"] = AddChannel(arg["img"])
    /\ ret["img"] # arg["img"]
    /\ ret["seg"] = arg["seg"]

\* C2: DeleteKeysd returns a new mapping whose key set is the input's minus
\* the listed keys, every remaining key with its original value; listed
\* keys absent from the input raise nothing; the input is not mutated.
C2_DeleteKeys ==
    [][(fn = "DeleteKeysd" /\ ncalls = 0 /\ ncalls' = 1) =>
          /\ raised' = ""
          /\ DOMAIN ret' = DOMAIN arg \ Range(self.keys)
          /\ \A k \in DOMAIN ret' : ret'[k] = arg[k]
          /\ arg' = arg]_vars

\* a call that dropped a present key, ignored an absent one, kept a third
C2_Witness ==
    /\ fn = "DeleteKeysd" /\ ncalls = 1 /\ raised = ""
    /\ self.keys = <<"img", "meta">>
    /\ DOMAIN arg = {"img", "seg"}
    /\ DOMAIN ret = {"seg"}
    /\ ret["seg"] = arg["seg"]

(***************************************************************************)
(* Properties of the functions of utils.py and of ImageEndPadder.          *)
(***************************************************************************)
\* C5 as stated: for src and dest of equal rank, centres inside the arrays
\* and any dims (0/None entries and dims shorter than the rank included),
\* the source-side and the destination-side slice of every axis select
\* equally many indices.
C5_EqualExtents ==
    (fn = "copypaste_arrays" /\ ncalls = 1) =>
        \A i \in 1..Len(arg.srcshape) :
            SliceLen(ret.srcslices[i], arg.srcshape[i])
                = SliceLen(ret.destslices[i], arg.destshape[i])

\* C6 as stated: on a constant array rescale_array takes the degenerate
\* branch and returns an array whose every element equals minv.
C6_ConstantGivesMinv ==
    (fn = "rescale_array" /\ ncalls = 1
        /\ \A i, j \in Indices(arg.arr.shape) : arg.arr.data[i] = arg.arr.data[j])
    => /\ raised = ""
       /\ ret.shape = arg.arr.shape
       /\ \A i \in Indices(ret.shape) :
              ret.data[i][1] = arg.minv * ret.data[i][2]

\* C7: for an image of shape (A0, A1, s_0..s_n) and an out_size with one
\* entry per spatial axis, the padded image has shape
\* (A0, A1, max(s_i, out_size[i])...), holds the original content from
\* index 0 of every axis, and under mode 'constant' is zero elsewhere.
C7_EndPadding ==
    (fn = "ImageEndPadder" /\ ncalls = 1
        /\ Len(self.out_size) = Len(arg.shape) - 2)
    => /\ raised = ""
       /\ Len(ret.shape) = Len(arg.shape)
       /\ ret.shape[1] = arg.shape[1] /\ ret.shape[2] = arg.shape[2]
       /\ \A i \in 1..Len(self.out_size) :
              /\ ret.shape[i + 2] >= arg.shape[i + 2]
              /\ ret.shape[i + 2] >= self.out_size[i]
              /\ ret.shape[i + 2] \in {arg.shape[i + 2], self.out_size[i]}
       /\ \A idx \in Indices(arg.shape) : ret.data[idx] = arg.data[idx]
       /\ self.mode = "constant" =>
              \A idx \in Indices(ret.shape) \ Indices(arg.shape) :
                  ret.data[idx] = 0

\* a 2x2 image grown to 3 along one spatial axis and left at 2 along the
\* other, although out_size asks for 1 there
C7_Witness ==
    /\ fn = "ImageEndPadder" /\ ncalls = 1 /\ raised = ""
    /\ self.mode = "constant" /\ self.out_size = <<3, 1>>
    /\ arg.shape = <<1, 1, 2, 2>> /\ ret.shape = <<1, 1, 3, 2>>
    /\ arg.data[<<0, 0, 1, 1>>] = 4 /\ ret.data[<<0, 0, 1, 1>>] = 4
    /\ ret.data[<<0, 0, 2, 1>>] = 0

\* C8: with every resize_dims entry larger than the image, resize_center
\* returns an array of shape resize_dims holding img unchanged in the window
\* starting at resize_dims[i] // 2 - img.shape[i] // 2 on each axis, and
\* fill_value everywhere else.
C8_ResizeCenterGrows ==
    (fn = "resize_center" /\ ncalls = 1
        /\ \A i \in 1..Len(arg.img.shape) : arg.resize_dims[i] > arg.img.shape[i])
    => LET r     == Len(arg.img.shape)
           w     == [i \in 1..r |->
                        (arg.resize_dims[i] \div 2) - (arg.img.shape[i] \div 2)]
           inwin(idx) == \A i \in 1..r :
                             idx[i] >= w[i] /\ idx[i] < w[i] + arg.img.shape[i]
       IN  /\ raised = ""
           /\ ret.shape = arg.resize_dims
           /\ \A idx \in Indices(ret.shape) :
                  ret.data[idx] =
                      IF inwin(idx)
                      THEN arg.img.data[[i \in 1..r |-> idx[i] - w[i]]]
                      ELSE arg.fill_value

\* a 2-element image centred in 5 elements: window start 5 // 2 - 2 // 2
C8_Witness ==
    /\ fn = "resize_center" /\ ncalls = 1 /\ raised = ""
    /\ arg.img.shape = <<2>> /\ arg.resize_dims = <<5>> /\ arg.fill_value = 7
    /\ arg.img.data[<<0>>] = 1 /\ arg.img.data[<<1>>] = 2
    /\ ret.data = [idx \in Indices(<<5>>) |->
                      CASE idx = <<1>> -> 1 [] idx = <<2>> -> 2 [] OTHER -> 7]

\* C9: one_hot returns an array of shape labels.shape + (num_classes,)
\* whose trailing vector at every label v has exactly one 1, at the index j
\* in 0..num_classes-1 congruent to v modulo num_classes, and 0 elsewhere.
C9_OneHot ==
    (fn = "one_hot" /\ ncalls = 1)
    => /\ ret.shape = arg.labels.shape \o <<arg.num_classes>>
       /\ \A idx \in Indices(arg.labels.shape) :
              \E j \in 0..(arg.num_classes - 1) :
                  /\ \E q \in -4..4 :
                         arg.labels.data[idx] = q * arg.num_classes + j
                  /\ \A c \in 0..(arg.num_classes - 1) :
                         ret.data[idx \o <<c>>] = IF c = j THEN 1 ELSE 0

\* a negative label and a label beyond num_classes
C9_Witness ==
    /\ fn = "one_hot" /\ ncalls = 1
    /\ arg.num_classes = 3 /\ arg.labels.shape = <<2>>
    /\ arg.labels.data[<<0>>] = -1 /\ arg.labels.data[<<1>>] = 3
    /\ ret.data[<<0, 2>>] = 1 /\ ret.data[<<0, 0>>] = 0
    /\ ret.data[<<1, 0>>] = 1 /\ ret.data[<<1, 2>>] = 0

(***************************************************************************)
(* Properties of AffineGrid.                                               *)
(***************************************************************************)
\* the matrix of one stage: the identity when its parameter group was not
\* supplied
StageMatrix(params, m, n) == IF params = <<>> THEN Eye(n + 1) ELSE m

\* the grid AffineGrid was called on
InputGrid ==
    IF arg.grid.none THEN create_grid(arg.spatial_size.val, <<>>)
    ELSE arg.grid.val

\* C10: every coordinate column of the output is R (S (T (Z x))) for the
\* column x of the input grid, each of rotate, shear, translate, scale
\* being the identity when its parameter group was not supplied; with all
\* four unset and only a spatial_size given the output is
\* create_grid(spatial_size).
C10_AffineOrder ==
    (fn = "AffineGrid" /\ ncalls = 1 /\ ~(arg.grid.none /\ arg.spatial_size.none))
    => LET g == InputGrid
           n == Len(g.shape) - 1
           R == StageMatrix(self.rotate_params,
                            create_rotate(n, self.rotate_params), n)
           S == StageMatrix(self.shear_params,
                            create_shear(n, self.shear_params), n)
           T == StageMatrix(self.translate_params,
                            create_translate(n, self.translate_params), n)
           Z == StageMatrix(self.scale_params,
                            create_scale(n, self.scale_params), n)
           col(a, pt) == [c \in 1..(n + 1) |-> a[<<c - 1>> \o pt]]
       IN  /\ raised = ""
           /\ ret.shape = g.shape
           /\ \A pt \in Indices(Tail(g.shape)) :
                  col(ret.data, pt)
                      = MatVec(R, MatVec(S, MatVec(T, MatVec(Z, col(g.data, pt)))))
           /\ (/\ self.rotate_params = <<>> /\ self.shear_params = <<>>
               /\ self.translate_params = <<>> /\ self.scale_params = <<>>
               /\ arg.grid.none)
              => ret.data = create_grid(arg.spatial_size.val, <<>>).data

\* all four stages supplied on a 2x2 grid: the corner (-1/2, -1/2) scaled
\* to (-1, -3/2), translated to (0, 1/2), sheared to (1/2, 1/2) and turned
\* a quarter to (-1/2, 1/2)
C10_Witness ==
    /\ fn = "AffineGrid" /\ ncalls = 1 /\ raised = ""
    /\ self.rotate_params = <<1>> /\ self.shear_params = <<1, 2>>
    /\ self.translate_params = <<1, 2>> /\ self.scale_params = <<2, 3>>
    /\ arg.grid.none /\ arg.spatial_size.val = <<2, 2>>
    /\ ret.data[<<0, 0, 0>>] = -1 /\ ret.data[<<1, 0, 0>>] = 1
    /\ ret.data[<<2, 0, 0>>] = HalfUnits

\* no stage supplied: the output is the dense grid of the spatial size
C10_WitnessIdentity ==
    /\ fn = "AffineGrid" /\ ncalls = 1 /\ raised = ""
    /\ self.rotate_params = <<>> /\ self.shear_params = <<>>
    /\ self.translate_params = <<>> /\ self.scale_params = <<>>
    /\ arg.grid.none /\ arg.spatial_size.val = <<1, 2>>
    /\ ret.data[<<1, 0, 0>>] = -1 /\ ret.data[<<1, 0, 1>>] = 1

\* C11: called with neither spatial_size nor grid, AffineGrid raises the
\* invalid-input error and returns nothing; with only spatial_size it
\* transforms create_grid(spatial_size); with a grid it transforms that
\* grid, whether or not a spatial_size came with it, and raises no error.
C11_GridSelection ==
    (fn = "AffineGrid" /\ ncalls = 1)
    => LET transformed(g) ==
               ApplyAffine(AffineGrid_affine(self, Len(g.shape) - 1), g)
       IN  /\ (arg.grid.none /\ arg.spatial_size.none)
              => (raised = "ValueError" /\ ret = << >>)
           /\ (arg.grid.none /\ ~arg.spatial_size.none)
              => LET g == create_grid(arg.spatial_size.val, <<>>)
                 IN  /\ raised = ""
                     /\ ret.shape = <<Len(arg.spatial_size.val) + 1>>
                                        \o arg.spatial_size.val
                     /\ ret.data = transformed(g)
           /\ ~arg.grid.none
              => /\ raised = ""
                 /\ ret.shape = arg.grid.val.shape
                 /\ ret.data = transformed(arg.grid.val)

\* a grid of shape (3, 2, 2) and spacing 2 given together with the spatial
\* size (1, 1): the grid is the one transformed
C11_Witness ==
    /\ fn = "AffineGrid" /\ ncalls = 1 /\ raised = ""
    /\ ~arg.grid.none /\ ~arg.spatial_size.none
    /\ arg.spatial_size.val = <<1, 1>> /\ arg.grid.val.shape = <<3, 2, 2>>
    /\ self.scale_params = <<2>> /\ self.rotate_params = <<>>
    /\ self.shear_params = <<>> /\ self.translate_params = <<>>
    /\ ret.shape = <<3, 2, 2>> /\ ret.data[<<0, 0, 0>>] = -4
    /\ ret.data[<<1, 0, 0>>] = -2

\* neither argument given
C11_WitnessNeither ==
    /\ fn = "AffineGrid" /\ ncalls = 1 /\ raised = "ValueError"
    /\ arg.grid.none /\ arg.spatial_size.none /\ ret = << >>

(***************************************************************************)
(* Properties of the validating constructors.                              *)
(***************************************************************************)
\* the construction that has run succeeded exactly when its arguments are
\* valid, and left no instance when it failed; restricted to the runs whose
\* __debug__ flag is in flags
ConstructionValidated(flags) ==
    /\ (fn = "IntensityNormalizer.__init__" /\ ncalls = 1 /\ ctor.debug \in flags)
       => LET valid ==
                  \/ ctor.subtrahend.type = "NoneType"
                       /\ ctor.divisor.type = "NoneType"
                  \/ ctor.subtrahend.type = "ndarray"
                       /\ ctor.divisor.type = "ndarray"
          IN  /\ (raised = "") <=> valid
              /\ raised # "" => self = << >>
    /\ (fn = "ImageEndPadder.__init__" /\ ncalls = 1 /\ ctor.debug \in flags)
       => LET valid == /\ ctor.out_size.type \in {"list", "tuple"}
                       /\ ctor.mode.type = "str"
          IN  /\ (raised = "") <=> valid
              /\ raised # "" => self = << >>

\* C12: IntensityNormalizer construction succeeds iff subtrahend and
\* divisor are both absent or both arrays; ImageEndPadder construction
\* succeeds iff out_size is a list or tuple and mode is a string; a failed
\* construction gives an error and no instance.
C12_ConstructionValidated == ConstructionValidated(BOOLEAN)

\* the same, of the runs in which assert statements are executed
ConstructionValidatedDebug == ConstructionValidated({TRUE})

(***************************************************************************)
(* Properties of the randomized transforms.                                *)
(***************************************************************************)
RandTransforms == {"RandRotate90", "RandAffine", "Rand2DElastic", "Rand3DElastic"}

\* the events of a call that compute geometry
Geometric ==
    {"Rotate90", "create_grid", "create_control_grid", "AffineGrid",
     "interpolate", "resampler"}

\* the last call of a transform in names made its randomisation step exactly
\* once, before its branch and before its geometry, and took the branch
\* that the gate draw of that step selects
RandomiseOnceFirst(names) ==
    (fn \in names /\ ncalls >= 1)
    => LET rs == Positions(trace, "randomise")
           bs == Positions(trace, "branch")
           ds == Positions(trace, "R.random") \cup Positions(trace, "R.rand")
           gs == {i \in DOMAIN trace : trace[i].ev \in Geometric}
       IN  /\ Cardinality(rs) = 1
           /\ \A r \in rs : \A i \in bs \cup gs : r < i
           /\ \A b \in bs : \E d \in ds :
                 /\ d < b
                 /\ trace[b].val = FloatLt(trace[d].val, self.prob)

\* C3: for each of RandRotate90, RandAffine, Rand2DElastic and
\* Rand3DElastic, and every sequence of calls on one instance, each call
\* performs the randomisation step exactly once, before the call decides
\* its branch and before any geometric computation, and the branch taken
\* depends only on the draw of that call.
C3_RandomiseOnceFirst == RandomiseOnceFirst(RandTransforms)

\* the same, of the three transforms whose __call__ opens with
\* self.randomise()
RandomiseOnceFirstOthers == RandomiseOnceFirst(RandTransforms \ {"Rand3DElastic"})

\* C4: a RandRotate90 constructed with prob <= 0 returns its input
\* unchanged on every call; one constructed with prob >= 1 takes the
\* rotation branch on every call and returns the input rotated by 90 k
\* degrees for some k in 1..max_k.
C4_GateExtremes ==
    (fn = "RandRotate90" /\ ncalls >= 1)
    => /\ (ctor.prob # NaN /\ ctor.prob <= 0) =>
              /\ ret = arg
              /\ Positions(trace, "Rotate90") = {}
       /\ ctor.prob >= DrawRes =>
              /\ Positions(trace, "Rotate90") # {}
              /\ \E k \in 1..ctor.max_k : ret = Rot90(arg, k, <<1, 2>>)

\* a call, not the first, of an instance built with prob above 1 that
\* turned a 2x2 image; and one of an instance built with prob below 0
C4_Witness ==
    /\ fn = "RandRotate90" /\ ncalls = MaxCalls
    /\ ctor.prob = DrawRes + 1 /\ self.prob = DrawRes
    /\ arg.shape = <<1, 2, 2>> /\ arg.data[<<0, 0, 0>>] = 1
    /\ arg.data[<<0, 0, 1>>] = 2
    /\ self._rand_k = 1 /\ ret.data[<<0, 0, 0>>] = 2 /\ ret # arg

C4_WitnessNever ==
    /\ fn = "RandRotate90" /\ ncalls = MaxCalls
    /\ ctor.prob = -1 /\ self.prob = 0
    /\ arg.shape = <<1, 2, 2>> /\ arg.data[<<0, 0, 1>>] = 2 /\ ret = arg

\* the branch a call took: the value of its one branch event
BranchOf(tr) == tr[CHOOSE i \in Positions(tr, "branch") : TRUE].val

C14_NeverTransforms ==
    fn = "Rand3DElastic"
    => /\ self.do_transform = FALSE
       /\ self.alpha = 1 /\ self.sigma = 1 /\ self.rand_offset = << >>
       /\ ncalls >= 1
          => /\ raised = ""
             /\ Positions(trace, "randomise") = {}
             /\ Positions(trace, "R.rand") = {}
             /\ \A b \in Positions(trace, "branch") : trace[b].val = FALSE
             /\ Cardinality(Positions(trace, "resampler")) = 1
             /\ ret.op = "grid_sample"
             /\ ret.grid.shape = <<4>> \o arg.spatial_size
             /\ ret.grid.data = create_grid(arg.spatial_size, <<>>).data

\* the second call of an instance built with prob = 1 on the spatial size
\* (1, 1, 2): the grid resampled through has the x coordinates -1/2, 1/2
C14_Witness ==
    /\ fn = "Rand3DElastic" /\ ncalls = 2 /\ ctor.prob = DrawRes
    /\ self.prob = DrawRes /\ ~self.do_transform
    /\ arg.spatial_size = <<1, 1, 2>>
    /\ ret.grid.data[<<2, 0, 0, 0>>] = -1 /\ ret.grid.data[<<2, 0, 0, 1>>] = 1
    /\ ret.grid.data[<<3, 0, 0, 1>>] = HalfUnits

\* the draws a call made from the generator, in program order
DrawsOf(tr) == SelectSeq(tr, LAMBDA e : e.ev \in {"R.randint", "R.random", "R.rand"})

\* every call of a RandRotate90 built with a prob in probs drew exactly
\* twice, the integer k first and the gate second, whether or not the gate
\* fired, and left 1 <= _rand_k <= max_k; the stored prob is within [0, 1]
\* in every state
TwoDrawsClamped(probs) ==
    (fn = "RandRotate90" /\ ctor.prob \in probs)
    => /\ self.prob # NaN /\ 0 <= self.prob /\ self.prob <= DrawRes
       /\ ncalls >= 1
          => /\ Len(DrawsOf(trace)) = 2
             /\ DrawsOf(trace)[1].ev = "R.randint"
             /\ DrawsOf(trace)[2].ev = "R.random"
             /\ self._rand_k = DrawsOf(trace)[1].val + 1
             /\ 1 <= self._rand_k /\ self._rand_k <= self.max_k

\* C15: every call of RandRotate90 consumes exactly two draws, the integer
\* k draw and then the gate draw, whether or not the gate fires; after
\* every call 1 <= _rand_k <= max_k; the stored prob is within [0, 1] in
\* every state, for any prob passed to the constructor.
C15_TwoDrawsClamped == TwoDrawsClamped(Probs)

\* the same, of the instances built with a prob that is a number
TwoDrawsClampedNumeric == TwoDrawsClamped(Probs \ {NaN})

\* the one position of the event named name in tr
PositionOf(tr, name) == CHOOSE i \in Positions(tr, name) : TRUE

\* C16: every call of RandAffine and of Rand2DElastic draws exactly one
\* gate, first; the internal RandAffineGrid, and for Rand2DElastic the
\* internal RandDeformGrid before it and the upsampling after it, resample
\* in that call iff the gate of the call fired; when it did not, the grid
\* is create_grid(spatial_size) and the helpers keep their stored
\* parameters and draws; the resampler runs exactly once in both branches.
C16_GateThenHelpers ==
    [][(fn \in {"RandAffine", "Rand2DElastic"} /\ ncalls' = ncalls + 1) =>
          LET tr    == trace'
              fired == BranchOf(tr)
              ra    == Positions(tr, "RandAffineGrid.randomise")
              rd    == Positions(tr, "RandDeformGrid.randomise")
              up    == Positions(tr, "interpolate")
              rs    == Positions(tr, "resampler")
          IN  /\ Cardinality(Positions(tr, "R.rand")) = 1
              /\ \A i \in ra \cup rd \cup Positions(tr, "branch") :
                    PositionOf(tr, "R.rand") < i
              /\ fired = FloatLt(tr[PositionOf(tr, "R.rand")].val, self.prob)
              /\ raised' = "" /\ ret'.op = "grid_sample"
              /\ Cardinality(rs) = 1 /\ PositionOf(tr, "resampler") = Len(tr)
              /\ Cardinality(ra) = (IF fired THEN 1 ELSE 0)
              /\ Cardinality(rd) = (IF fired /\ fn = "Rand2DElastic" THEN 1 ELSE 0)
              /\ Cardinality(up) = (IF fired /\ fn = "Rand2DElastic" THEN 1 ELSE 0)
              /\ (fired /\ fn = "Rand2DElastic")
                 => /\ PositionOf(tr, "RandDeformGrid.randomise")
                          < PositionOf(tr, "RandAffineGrid.randomise")
                    /\ PositionOf(tr, "RandAffineGrid.randomise")
                          < PositionOf(tr, "interpolate")
                    /\ PositionOf(tr, "interpolate") < PositionOf(tr, "resampler")
                    /\ self'.deform_grid.rand_mag
                          = tr[PositionOf(tr, "RandDeformGrid.randomise")].val
              /\ fired
                 => self'.rand_affine_grid
                       = RandAffineGrid_randomise(self.rand_affine_grid,
                             tr[PositionOf(tr, "RandAffineGrid.randomise")].val)
              /\ ~fired
                 => /\ ret'.grid.shape = <<Len(arg'.spatial_size) + 1>>
                                             \o arg'.spatial_size
                    /\ ret'.grid.data = create_grid(arg'.spatial_size, <<>>).data
                    /\ self'.rand_affine_grid = self.rand_affine_grid
                    /\ fn = "Rand2DElastic"
                       => self'.deform_grid = self.deform_grid]_vars

\* a RandAffine whose second call did not fire and kept the rotation drawn
\* by its first call
C16_Witness ==
    /\ fn = "RandAffine" /\ ncalls = 2 /\ raised = ""
    /\ BranchOf(trace) = FALSE /\ ~self.do_transform
    /\ self.rand_affine_grid.rotate_range = <<1>>
    /\ self.rand_affine_grid.rotate_params = <<-1>>
    /\ arg.spatial_size = <<1, 2>>
    /\ ret.grid.data[<<1, 0, 0>>] = -1 /\ ret.grid.data[<<1, 0, 1>>] = 1

\* a Rand2DElastic call that fired: deformation, affine, upsampling,
\* resampling
C16_WitnessElastic ==
    /\ fn = "Rand2DElastic" /\ ncalls = 1 /\ raised = ""
    /\ BranchOf(trace) = TRUE /\ self.do_transform
    /\ self.deform_grid.rand_mag = 2
    /\ self.rand_affine_grid.rotate_params = <<1>>
    /\ ret.grid.shape = <<3, 2, 2>> /\ ret.grid.data.op = "interpolate"

\* the half-widths the loop of copypaste_arrays takes on one axis
HalfBefore(i) ==
    Clip(arg.dims[i] \div 2, 0, Min(arg.srccenter[i], arg.destcenter[i]))

HalfAfter(i) ==
    Clip(arg.dims[i] \div 2 + 1, 0,
         Min(arg.srcshape[i] - arg.srccenter[i],
             arg.destshape[i] - arg.destcenter[i]))

\* the slices of an axis run from centre - d1 to centre + d2 and stay within
\* both arrays
SlicesInBounds(i) ==
    /\ ret.srcslices[i] = Slice(arg.srccenter[i] - HalfBefore(i),
                                arg.srccenter[i] + HalfAfter(i))
    /\ ret.destslices[i] = Slice(arg.destcenter[i] - HalfBefore(i),
                                 arg.destcenter[i] + HalfAfter(i))
    /\ ret.srcslices[i].start >= 0 /\ ret.srcslices[i].stop <= arg.srcshape[i]
    /\ ret.destslices[i].start >= 0
    /\ ret.destslices[i].stop <= arg.destshape[i]

\* C17 as stated: for every axis with a non-zero dims entry and centres
\* inside both arrays, copypaste_arrays takes d1 = clip(dim // 2, 0,
\* min(src_before, dest_before)) and d2 = clip(dim // 2 + 1, 0,
\* min(src_after, dest_after)), both slices stay within the bounds of their
\* arrays, and the copied extent d1 + d2 never exceeds dims[axis].
C17_ExtentWithinDims ==
    (fn = "copypaste_arrays" /\ ncalls = 1) =>
        \A i \in 1..Min(Len(arg.srcshape), Len(arg.dims)) :
            arg.dims[i] # 0 =>
                /\ SlicesInBounds(i)
                /\ HalfBefore(i) + HalfAfter(i) <= arg.dims[i]

\* what the code does keep: the slices are the clipped ones, they stay within
\* bounds, and the extent never exceeds dims[axis] + 1; an even dims entry
\* that nothing clips copies dims[axis] + 1 indices
ExtentWithinDimsPlusOne ==
    (fn = "copypaste_arrays" /\ ncalls = 1) =>
        \A i \in 1..Min(Len(arg.srcshape), Len(arg.dims)) :
            arg.dims[i] # 0 =>
                /\ SlicesInBounds(i)
                /\ HalfBefore(i) + HalfAfter(i) <= arg.dims[i] + 1
                /\ (arg.dims[i] % 2 = 1)
                   => HalfBefore(i) + HalfAfter(i) <= arg.dims[i]

\* a copy of width 2 around index 1 of two arrays of length 3 selects all
\* three indices
ExtentExceedsDims ==
    /\ fn = "copypaste_arrays" /\ ncalls = 1
    /\ arg.srcshape = <<3>> /\ arg.destshape = <<3>>
    /\ arg.srccenter = <<1>> /\ arg.destcenter = <<1>> /\ arg.dims = <<2>>
    /\ ret.srcslices[1] = Slice(0, 3) /\ ret.destslices[1] = Slice(0, 3)

\* the number of control points the spec gives for an axis of s voxels at
\* spacing t: ceil((s-1)/(2t) + 0.5) * 2 + 2 for even s, ceil((s-1)/(2t)) * 2
\* + 3 for odd s
ControlPoints(s, t) ==
    IF s % 2 = 0 THEN CeilDiv(2 * (s - 1) + 2 * t, 4 * t) * 2 + 2
    ELSE CeilDiv(s - 1, 2 * t) * 2 + 3

\* C18: for every s >= 1 and positive spacing t, create_control_grid lays
\* out n = ceil((s-1)/(2t) + 0.5) * 2 + 2 control points along an axis of
\* even size s and n = ceil((s-1)/(2t)) * 2 + 3 along one of odd size, and
\* the span of the control grid, (n-1) * t from its first to its last
\* coordinate, strictly exceeds the image span s - 1.
C18_ControlGridSpan ==
    (fn = "create_control_grid" /\ ncalls = 1) =>
        /\ Len(ret.shape) = Len(arg.spatial_shape) + 1
        /\ \A a \in 1..Len(arg.spatial_shape) :
              LET s     == arg.spatial_shape[a]
                  t     == arg.spacing[a]
                  n     == ret.shape[a + 1]
                  first == [i \in 1..Len(ret.shape) |-> IF i = 1 THEN a - 1 ELSE 0]
                  last  == [first EXCEPT ![a + 1] = n - 1]
              IN  /\ n = ControlPoints(s, t)
                  /\ ret.data[last] - ret.data[first] = HalfUnits * (n - 1) * t
                  /\ (n - 1) * t > s - 1

\* an even and an odd axis: 6 voxels at spacing 2 take 6 control points
\* spanning 10 > 5, 3 voxels at spacing 1 take 5 spanning 4 > 2
C18_Witness ==
    /\ fn = "create_control_grid" /\ ncalls = 1
    /\ arg.spatial_shape = <<6, 3>> /\ arg.spacing = <<2, 1>>
    /\ ret.shape = <<3, 6, 5>>
    /\ ret.data[<<0, 0, 0>>] = 0 - 5 * HalfUnits
    /\ ret.data[<<0, 5, 0>>] = 5 * HalfUnits
    /\ ret.data[<<1, 0, 4>>] = 2 * HalfUnits

\* the index k of an axis of length size lies within margin of its start or
\* of its end
WithinMargin(k, size, margin) == k < margin \/ k >= size - margin

\* every element of img whose axis-2 or axis-1 index lies within margin of
\* an edge is zero
MarginsAreZero(img, margin) ==
    \A idx \in Indices(img.shape) :
        (\/ WithinMargin(idx[3], img.shape[3], margin)
         \/ WithinMargin(idx[2], img.shape[2], margin))
        => img.data[idx] = 0

\* C19 as stated: for a channel-first image of three axes and margin >= 0,
\* zero_margins(img, margin) is true iff every element whose axis-2 or
\* axis-1 index is within margin of the start or of the end is zero; with
\* margin = 0 no element lies within the margin, so the result is true.
C19_ZeroMargins ==
    (fn = "zero_margins" /\ ncalls = 1) =>
        ret = MarginsAreZero(arg.img, arg.margin)

\* what the code does keep: the stated equivalence for every margin >= 1;
\* with margin = 0 the slice -0: selects the whole axis and the result is
\* true iff the whole image is zero
ZeroMarginsPositive ==
    (fn = "zero_margins" /\ ncalls = 1) =>
        ret = IF arg.margin >= 1 THEN MarginsAreZero(arg.img, arg.margin)
              ELSE \A idx \in Indices(arg.img.shape) : arg.img.data[idx] = 0

\* an image of ones checked with margin 0 is reported to have non-zero
\* margins
ZeroMarginRejected ==
    /\ fn = "zero_margins" /\ ncalls = 1
    /\ arg.img = Full(<<1, 2, 2>>, 1) /\ arg.margin = 0
    /\ ret = FALSE

\* margins of one voxel around a non-zero centre are accepted
ZeroMarginsAccepted ==
    /\ fn = "zero_margins" /\ ncalls = 1
    /\ arg.img.shape = <<1, 3, 3>> /\ arg.margin = 1
    /\ arg.img.data[<<0, 1, 1>>] = 1
    /\ ret = TRUE

=============================================================================
